---- MODULE Spec2Model ----
(***************************************************************************)
(* wacht: the aggregator's result ingest, quorum decision, incident store  *)
(* and webhook dispatch, modelled at the granularity of one store          *)
(* statement per step.                                                     *)
(*                                                                         *)
(*   internal/server   handleResult, handleProbeRegister, handleHeartbeat  *)
(*   internal/quorum   MajorityDown, AllConsecutivelyDown                  *)
(*   internal/store    SaveResult, RecentResultsPerProbe,                  *)
(*                     RecentResultsByProbe, OpenIncident, ResolveIncident *)
(*   internal/alert    Fire                                                *)
(***************************************************************************)
EXTENDS Integers, Sequences, FiniteSets, TLC

\* ------------------------------------------------------------------ bounds

\* Rows ever appended to check_results in SpecStatus.
MaxStatus == 4
\* Rows ever appended to check_results in SpecResolved.
MaxResolved == 6
\* The server clock runs 0..MaxResolvedTime in SpecResolved.
MaxResolvedTime == 2
\* Rows ever appended to check_results in SpecEvict.
MaxEvict == 3
\* The server clock runs 0..MaxEvictTime in SpecEvict.
MaxEvictTime == 2
\* Results the probe produces in SpecAgent.
MaxObs == 3
\* Heartbeats the probe sends in SpecAgent.
MaxBeats == 2
\* The server clock runs 0..MaxOutageTime in SpecOutage.
MaxOutageTime == 1
\* Rows ever appended to check_results in SpecAuth.
MaxAuth == 2
\* The server clock runs 0..MaxAuthTime in SpecAuth.
MaxAuthTime == 1
\* Longest list handed to SeedChecks in SpecSeed.
MaxSeedLen == 2
\* Rows of check_results in SpecLog.
MaxLog == 3
\* The largest LIMIT handed to RecentResultsByProbe in SpecLog.
MaxLimit == 3
\* Rows ever appended to check_results in SpecProbes.
MaxSeen == 2
\* The server clock runs 0..MaxSeenTime in SpecProbes.
MaxSeenTime == 1
\* Rows ever appended to check_results in SpecFaulty.
MaxFaulty == 4
\* Rows ever appended to check_results in SpecBodies.
MaxBodies == 4
\* Calls made on the store in SpecStore.
MaxCalls == 6
\* The clock runs 0..MaxStoreTime in SpecStore.
MaxStoreTime == 1
\* Rows ever appended to check_results when results are handled one at a time.
MaxResults == 4
\* Rows ever appended to check_results when handlers run concurrently.
MaxRacing == 4
\* The server clock runs 0..MaxRacingTime when handlers run concurrently.
MaxRacingTime == 0
\* The server clock runs 0..MaxTime.
MaxTime == 1
\* Longest slice handed to the quorum functions in SpecQuorum.
MaxBallot == 5

\* ------------------------------------------------------------------ inputs

\* probe_id values carried by requests.
ProbeIDs == {"A", "B", "C"}
\* probe_id values carried by requests that are handled concurrently.
RacingProbeIDs == {"A", "B"}
\* check_id values carried by results.
CheckIDs == {"c1"}
\* Concurrent handleResult invocations (goroutines of the HTTP server).
Handlers == {1, 2}

\* SQL NULL in incidents.resolved_at.
NULL == -1
\* A nil *store.Check.
NoCheck == [id |-> "", target |-> "", webhook |-> ""]
\* The zero proto.CheckResult.
NoResult == [check_id |-> "", probe_id |-> "", up |-> FALSE, timestamp |-> 0]

VARIABLES
    probes,          \* table probes: rows [probe_id, registered_at, last_seen_at]
    check_results,   \* table check_results: rows [id, check_id, probe_id, up, timestamp]
    incidents,       \* table incidents: rows [id, check_id, started_at, resolved_at]
    checks,          \* table checks: rows [id, target, webhook]
    nextResultID,    \* AUTOINCREMENT of check_results.id
    nextIncidentID,  \* AUTOINCREMENT of incidents.id
    now,             \* the latest value time.Now() returned on the server
    req,             \* per goroutine: position in handleResult and its locals
    webhooks,        \* payloads POSTed by alert.Fire, in order
    firedSince,      \* per check_id: payloads POSTed since its last resolution
    qin,             \* SpecQuorum: the slice under test
    qout,            \* SpecQuorum: the last call and what it returned
    limits,          \* what bounds this behaviour: [rows, time]
    calls,           \* SpecStore: the store calls made so far, with what they returned
    agent            \* the probe process wacht-probe: its position in main and its locals

vars == <<probes, check_results, incidents, checks, nextResultID, nextIncidentID,
          now, req, webhooks, firedSince, qin, qout, limits, calls, agent>>

storeVars == <<probes, check_results, incidents, checks, nextResultID, nextIncidentID>>

\* ------------------------------------------------------------------ helpers

RECURSIVE RowsAsc(_)
\* The rows of S as a sequence in ascending id order.
RowsAsc(S) ==
    IF S = {} THEN <<>>
    ELSE LET m == CHOOSE r \in S : \A q \in S : r.id <= q.id
         IN  <<m>> \o RowsAsc(S \ {m})

RECURSIVE RowsDesc(_)
\* The rows of S as a sequence in descending id order.
RowsDesc(S) ==
    IF S = {} THEN <<>>
    ELSE LET m == CHOOSE r \in S : \A q \in S : r.id >= q.id
         IN  <<m>> \o RowsDesc(S \ {m})

\* SELECT probe_id, up: the two columns both result queries scan.
Scan(rows) == [k \in DOMAIN rows |-> [probe_id |-> rows[k].probe_id, up |-> rows[k].up]]

\* LIMIT n.
Limit(s, n) == IF Len(s) <= n THEN s ELSE SubSeq(s, 1, n)

\* ------------------------------------------------------------------ quorum

consecutiveFailureThreshold == 2

\* Faulty variant: every entry is counted.
countDownAll(results) == Len(results)

countDown(results) == Cardinality({k \in DOMAIN results : ~results[k].up})

\* Faulty variant: a tie counts as a majority (>= for >).
MajorityDownOrTie(results) ==
    IF Len(results) = 0 THEN FALSE
    ELSE countDown(results) >= Len(results) \div 2

\* Faulty variant: half the slice rounded up, so that a lone down row is no majority.
MajorityDownRoundedUp(results) ==
    IF Len(results) = 0 THEN FALSE
    ELSE countDown(results) > (Len(results) + 1) \div 2

MajorityDown(results) ==
    IF Len(results) = 0 THEN FALSE
    ELSE LET down == Cardinality({k \in DOMAIN results : ~results[k].up})
         IN  down > Len(results) \div 2

\* Faulty variant: the length test is missing.
AllDown(results) == \A k \in DOMAIN results : ~results[k].up

\* Faulty variant: one down row is enough (the loop returns true at the first).
AnyDown(results) ==
    IF Len(results) < consecutiveFailureThreshold THEN FALSE
    ELSE \E k \in DOMAIN results : ~results[k].up

AllConsecutivelyDown(results) ==
    IF Len(results) < consecutiveFailureThreshold THEN FALSE
    ELSE \A k \in DOMAIN results : ~results[k].up

\* ------------------------------------------------------------------ store

\* Faulty variant: ORDER BY id ASC, the oldest rows for the newest.
RecentResultsByProbeOldest(rows, checkID, probeID, n) ==
    Limit(Scan(RowsAsc({r \in rows : r.check_id = checkID /\ r.probe_id = probeID})), n)

\* Faulty variant: the LIMIT clause is missing.
RecentResultsByProbeUnlimited(rows, checkID, probeID, n) ==
    Scan(RowsDesc({r \in rows : r.check_id = checkID /\ r.probe_id = probeID}))

\* SELECT ... WHERE check_id = ? AND probe_id = ? ORDER BY id DESC LIMIT ?
RecentResultsByProbe(rows, checkID, probeID, n) ==
    Limit(Scan(RowsDesc({r \in rows : r.check_id = checkID /\ r.probe_id = probeID})), n)

\* Faulty variant: the subquery has no WHERE clause, MAX(id) is taken over every check.
RecentResultsPerProbeAnyCheck(rows, checkID) ==
    LET maxIDs == {r.id : r \in {x \in rows :
                        \A y \in rows : y.probe_id = x.probe_id => y.id <= x.id}}
    IN  Scan(RowsAsc({r \in rows : r.id \in maxIDs}))

\* SELECT ... WHERE id IN (SELECT MAX(id) ... WHERE check_id = ? GROUP BY probe_id)
RecentResultsPerProbe(rows, checkID) ==
    LET ofCheck == {r \in rows : r.check_id = checkID}
        maxIDs  == {r.id : r \in {x \in ofCheck :
                        \A y \in ofCheck : y.probe_id = x.probe_id => y.id <= x.id}}
    IN  Scan(RowsAsc({r \in rows : r.id \in maxIDs}))

\* Faulty variant: the WHERE clause is missing, the first row of checks is returned.
GetCheckAny(rows, id) ==
    IF \E c \in rows : c.webhook # "" THEN CHOOSE c \in rows : c.webhook # "" ELSE NoCheck

\* Faulty variant: the WHERE clause is missing, any row counts.
IsProbeRegisteredAny(rows, probeID) == Cardinality(rows) > 0

\* SELECT COUNT(1) FROM probes WHERE probe_id = ?
IsProbeRegistered(rows, probeID) ==
    Cardinality({p \in rows : p.probe_id = probeID}) > 0

\* Faulty variant: the check_id condition is missing, an open incident of any check counts.
OpenIncidentCountAnyCheck(rows, checkID) ==
    Cardinality({i \in rows : i.resolved_at = NULL})

\* Faulty variant: the resolved_at condition is missing, resolved incidents count too.
OpenIncidentCountAnyRow(rows, checkID) ==
    Cardinality({i \in rows : i.check_id = checkID})

\* Faulty variant: counts the resolved incidents (IS NOT NULL for IS NULL).
OpenIncidentCountResolved(rows, checkID) ==
    Cardinality({i \in rows : i.check_id = checkID /\ i.resolved_at # NULL})

\* SELECT COUNT(1) FROM incidents WHERE check_id = ? AND resolved_at IS NULL
OpenIncidentCount(rows, checkID) ==
    Cardinality({i \in rows : i.check_id = checkID /\ i.resolved_at = NULL})

\* SELECT ... FROM checks WHERE id = ?; nil when there is no row.
GetCheck(rows, id) ==
    IF \E c \in rows : c.id = id THEN CHOOSE c \in rows : c.id = id ELSE NoCheck

\* INSERT INTO check_results (...) VALUES (...)
SaveResult(rows, id, r) ==
    rows \cup {[id |-> id, check_id |-> r.check_id, probe_id |-> r.probe_id,
                up |-> r.up, timestamp |-> r.timestamp]}

\* INSERT INTO probes ... ON CONFLICT(probe_id) DO UPDATE SET ...
RegisterProbe(rows, probeID, t) ==
    {p \in rows : p.probe_id # probeID}
        \cup {[probe_id |-> probeID, registered_at |-> t, last_seen_at |-> t]}

\* Faulty variant: the statement rewrites the table with the one row it stamps.
UpdateProbeHeartbeatOnlyRow(rows, probeID, t) ==
    {[p EXCEPT !.last_seen_at = t] : p \in {q \in rows : q.probe_id = probeID}}

\* UPDATE probes SET last_seen_at = ? WHERE probe_id = ?
UpdateProbeHeartbeat(rows, probeID, t) ==
    {IF p.probe_id = probeID THEN [p EXCEPT !.last_seen_at = t] ELSE p : p \in rows}

\* INSERT INTO incidents (check_id, started_at) VALUES (?, ?)
OpenIncidentInsert(rows, id, checkID, t) ==
    rows \cup {[id |-> id, check_id |-> checkID, started_at |-> t, resolved_at |-> NULL]}

\* Faulty variant: the resolved_at condition is missing, resolved rows are stamped again.
ResolveIncidentAllRows(rows, checkID, t) ==
    {IF i.check_id = checkID THEN [i EXCEPT !.resolved_at = t] ELSE i : i \in rows}

\* Faulty variant: the UPDATE misses its check_id (compares it with the empty string).
ResolveIncidentNoCheck(rows, checkID, t) ==
    {IF i.check_id = "" /\ i.resolved_at = NULL
     THEN [i EXCEPT !.resolved_at = t] ELSE i : i \in rows}

\* UPDATE incidents SET resolved_at = ? WHERE check_id = ? AND resolved_at IS NULL
ResolveIncident(rows, checkID, t) ==
    {IF i.check_id = checkID /\ i.resolved_at = NULL
     THEN [i EXCEPT !.resolved_at = t] ELSE i : i \in rows}

\* ------------------------------------------------------------------ state

\* A goroutine that is not handling a result. Its locals: result, recent, the loop
\* index i, OpenIncident's count (NotRead before the SELECT), check, the response
\* status. histories and before are records kept for the properties: every
\* <<probe_id, history>> the loop has read, and the incidents table, the number
\* of payloads POSTed and the clock when the result was appended. err names the call whose error
\* the invocation met, "" when none.
NotRead == -1
NoSnapshot == [incidents |-> {}, webhooks |-> 0, now |-> 0]
idleReq == [pc |-> "idle", result |-> NoResult, recent |-> <<>>, i |-> 0,
            histories |-> {}, count |-> NotRead, check |-> NoCheck, status |-> 0,
            before |-> NoSnapshot, err |-> ""]

\* wacht-probe before main has called anything. pc is its position in main:
\* "start", "register" (POST /api/probes/register sent), "fetchChecks" (GET
\* /api/probes/checks sent), "loop" (heartbeatLoop started, check loop running),
\* "fatal" (log.Fatalf has ended the process). register and fetch are what the two
\* calls met ("" before they return), checks the fetched list, k the loop index,
\* clock the probe's time.Now(), sent the results handed to postResult, dropped
\* those whose POST ended in a transport error, beats the heartbeats sent.
idleAgent == [pc |-> "start", register |-> "", fetch |-> "", checks |-> <<>>, k |-> 1,
              clock |-> 0, sent |-> {}, dropped |-> {}, beats |-> 0]

\* Faulty variant: the loop stops after the first down row.
NextDownFirstOnly(recent, k) ==
    IF k = 1 /\ \E j \in DOMAIN recent : ~recent[j].up
    THEN CHOOSE j \in DOMAIN recent : ~recent[j].up /\ \A m \in 1..(j - 1) : recent[m].up
    ELSE 0

\* Index of the first down row of recent at or after k, or 0.
NextDown(recent, k) ==
    IF \E j \in k..Len(recent) : ~recent[j].up
    THEN CHOOSE j \in k..Len(recent) :
            ~recent[j].up /\ \A m \in k..(j - 1) : recent[m].up
    ELSE 0

Init ==
    /\ probes = {}
    /\ check_results = {}
    /\ incidents = {}
    /\ checks = {[id |-> "c1", target |-> "t1", webhook |-> "http://hook"]}
    /\ nextResultID = 1
    /\ nextIncidentID = 1
    /\ now = 0
    /\ req = [h \in Handlers |-> idleReq]
    /\ webhooks = <<>>
    /\ firedSince = [c \in CheckIDs |-> 0]
    /\ qin = <<>>
    /\ qout = [fn |-> "", val |-> FALSE]
    /\ limits = [rows |-> MaxResults, time |-> MaxTime]
    /\ calls = <<>>
    /\ agent = idleAgent

\* The same state, bounded for concurrent handlers.
InitRacing ==
    /\ probes = {}
    /\ check_results = {}
    /\ incidents = {}
    /\ checks = {[id |-> "c1", target |-> "t1", webhook |-> "http://hook"]}
    /\ nextResultID = 1
    /\ nextIncidentID = 1
    /\ now = 0
    /\ req = [h \in Handlers |-> idleReq]
    /\ webhooks = <<>>
    /\ firedSince = [c \in CheckIDs |-> 0]
    /\ qin = <<>>
    /\ qout = [fn |-> "", val |-> FALSE]
    /\ limits = [rows |-> MaxRacing, time |-> MaxRacingTime]
    /\ calls = <<>>
    /\ agent = idleAgent

\* ------------------------------------------------------------------ time

\* What time.Now() may return: the value it returned last, or a later one.
TimeNow == {t \in {now, now + 1} : t <= limits.time}

\* ------------------------------------------------------------------ probes

\* POST /api/probes/register
handleProbeRegister(probeID) ==
    /\ \E t \in TimeNow :
        /\ now' = t
        /\ probes' = RegisterProbe(probes, probeID, t)
    /\ UNCHANGED <<check_results, incidents, checks, nextResultID, nextIncidentID,
                   req, webhooks, firedSince, qin, qout, limits, calls, agent>>

\* POST /api/probes/heartbeat. It writes probes.last_seen_at only, which no result
\* handler reads; the specifications below leave it out of their next-state relations.
handleHeartbeat(probeID) ==
    /\ \E t \in TimeNow :
        /\ now' = t
        /\ probes' = UpdateProbeHeartbeat(probes, probeID, t)
    /\ UNCHANGED <<check_results, incidents, checks, nextResultID, nextIncidentID,
                   req, webhooks, firedSince, qin, qout, limits, calls, agent>>

\* ------------------------------------------------------------------ handleResult

\* Results accepted and not yet appended.
Saving == Cardinality({h \in Handlers : req[h].pc = "SaveResult"})

\* Decode the body, then IsProbeRegistered: 403 for an unknown probe.
hrIsProbeRegistered(h, r) ==
    /\ req[h].pc = "idle"
    /\ IF IsProbeRegistered(probes, r.probe_id)
       THEN /\ nextResultID + Saving <= limits.rows
            /\ req' = [req EXCEPT ![h] = [idleReq EXCEPT !.pc = "SaveResult", !.result = r]]
       ELSE req' = [req EXCEPT ![h] = [idleReq EXCEPT !.pc = "done", !.result = r,
                                                      !.status = 403]]
    /\ UNCHANGED <<storeVars, now, webhooks, firedSince, qin, qout, limits, calls, agent>>

\* h.store.SaveResult(result)
hrSaveResult(h) ==
    /\ req[h].pc = "SaveResult"
    /\ check_results' = SaveResult(check_results, nextResultID, req[h].result)
    /\ nextResultID' = nextResultID + 1
    /\ req' = [req EXCEPT ![h].pc = "RecentResultsPerProbe",
                          ![h].before = [incidents |-> incidents,
                                         webhooks |-> Len(webhooks),
                                         now |-> now]]
    /\ UNCHANGED <<probes, incidents, checks, nextIncidentID, now, webhooks,
                   firedSince, qin, qout, limits, calls, agent>>

\* recent := h.store.RecentResultsPerProbe(result.CheckID); quorum.MajorityDown(recent)
hrRecentResultsPerProbe(h) ==
    /\ req[h].pc = "RecentResultsPerProbe"
    /\ LET recent == RecentResultsPerProbe(check_results, req[h].result.check_id)
       IN  req' = [req EXCEPT ![h].recent = recent,
                              ![h].i = IF MajorityDown(recent) THEN NextDown(recent, 1) ELSE 0,
                              ![h].pc = IF MajorityDown(recent) THEN "RecentResultsByProbe"
                                        ELSE "ResolveIncident"]
    /\ UNCHANGED <<storeVars, now, webhooks, firedSince, qin, qout, limits, calls, agent>>

\* One turn of the loop over the down rows of recent:
\* history := h.store.RecentResultsByProbe(result.CheckID, r.ProbeID, 2)
hrRecentResultsByProbe(h) ==
    /\ req[h].pc = "RecentResultsByProbe"
    /\ LET r       == req[h].recent[req[h].i]
           history == RecentResultsByProbe(check_results, req[h].result.check_id, r.probe_id, 2)
           next    == NextDown(req[h].recent, req[h].i + 1)
       IN  req' = [req EXCEPT
                ![h].histories = @ \cup {<<r.probe_id, history>>},
                ![h].i = IF AllConsecutivelyDown(history) THEN next ELSE @,
                ![h].pc = IF ~AllConsecutivelyDown(history) THEN "done"
                          ELSE IF next = 0 THEN "OpenIncident" ELSE @,
                ![h].status = IF ~AllConsecutivelyDown(history) THEN 204 ELSE @]
    /\ UNCHANGED <<storeVars, now, webhooks, firedSince, qin, qout, limits, calls, agent>>

\* Faulty variant: an open incident does not end the invocation, the webhook is
\* dispatched again.
hrOpenIncidentCountRedispatch(h) ==
    /\ req[h].pc = "OpenIncident"
    /\ LET count == OpenIncidentCount(incidents, req[h].result.check_id)
       IN  req' = [req EXCEPT ![h].count = count,
                              ![h].pc = IF count > 0 THEN "GetCheck"
                                                     ELSE "OpenIncidentInsert"]
    /\ UNCHANGED <<storeVars, now, webhooks, firedSince, qin, qout, limits, calls, agent>>

\* OpenIncident, first statement: SELECT COUNT(1) ... ; count > 0 returns alreadyOpen.
hrOpenIncidentCount(h) ==
    /\ req[h].pc = "OpenIncident"
    /\ LET count == OpenIncidentCount(incidents, req[h].result.check_id)
       IN  req' = [req EXCEPT ![h].count = count,
                              ![h].pc = IF count > 0 THEN "done" ELSE "OpenIncidentInsert",
                              ![h].status = IF count > 0 THEN 204 ELSE @]
    /\ UNCHANGED <<storeVars, now, webhooks, firedSince, qin, qout, limits, calls, agent>>

\* OpenIncident, second statement: INSERT INTO incidents.
hrOpenIncidentInsert(h) ==
    /\ req[h].pc = "OpenIncidentInsert"
    /\ \E t \in TimeNow :
        /\ now' = t
        /\ incidents' = OpenIncidentInsert(incidents, nextIncidentID,
                                           req[h].result.check_id, t)
    /\ nextIncidentID' = nextIncidentID + 1
    /\ req' = [req EXCEPT ![h].pc = "GetCheck"]
    /\ UNCHANGED <<probes, check_results, checks, nextResultID, webhooks,
                   firedSince, qin, qout, limits, calls, agent>>

\* check := h.checkByID(result.CheckID); check != nil && check.Webhook != ""
hrGetCheck(h) ==
    /\ req[h].pc = "GetCheck"
    /\ LET check == GetCheck(checks, req[h].result.check_id)
           fire  == check # NoCheck /\ check.webhook # ""
       IN  req' = [req EXCEPT ![h].check = check,
                              ![h].pc = IF fire THEN "Fire" ELSE "done",
                              ![h].status = IF fire THEN @ ELSE 204]
    /\ UNCHANGED <<storeVars, now, webhooks, firedSince, qin, qout, limits, calls, agent>>

\* alert.Fire(check.Webhook, payload)
hrFire(h) ==
    /\ req[h].pc = "Fire"
    /\ webhooks' = Append(webhooks,
            [check_id |-> req[h].result.check_id, target |-> req[h].check.target,
             status |-> "down", probes_down |-> countDown(req[h].recent),
             probes_total |-> Len(req[h].recent)])
    /\ firedSince' = [firedSince EXCEPT ![req[h].result.check_id] = @ + 1]
    /\ req' = [req EXCEPT ![h].pc = "done", ![h].status = 204]
    /\ UNCHANGED <<storeVars, now, qin, qout, limits, calls, agent>>

\* Faulty variant: the resolving branch POSTs an "up" payload.
hrResolveIncidentNotify(h) ==
    /\ req[h].pc = "ResolveIncident"
    /\ \E t \in TimeNow :
        /\ now' = t
        /\ incidents' = ResolveIncident(incidents, req[h].result.check_id, t)
    /\ webhooks' = Append(webhooks,
            [check_id |-> req[h].result.check_id, target |-> "",
             status |-> "up", probes_down |-> countDown(req[h].recent),
             probes_total |-> Len(req[h].recent)])
    /\ firedSince' = firedSince
    /\ req' = [req EXCEPT ![h].pc = "done", ![h].status = 204]
    /\ UNCHANGED <<probes, check_results, checks, nextResultID, nextIncidentID,
                   qin, qout, limits, calls, agent>>

\* h.store.ResolveIncident(result.CheckID)
hrResolveIncident(h) ==
    /\ req[h].pc = "ResolveIncident"
    /\ \E t \in TimeNow :
        /\ now' = t
        /\ incidents' = ResolveIncident(incidents, req[h].result.check_id, t)
    /\ firedSince' = IF incidents' # incidents
                     THEN [firedSince EXCEPT ![req[h].result.check_id] = 0]
                     ELSE firedSince
    /\ req' = [req EXCEPT ![h].pc = "done", ![h].status = 204]
    /\ UNCHANGED <<probes, check_results, checks, nextResultID, nextIncidentID,
                   webhooks, qin, qout, limits, calls, agent>>

\* The response is written and the goroutine ends.
hrReturn(h) ==
    /\ req[h].pc = "done"
    /\ req' = [req EXCEPT ![h] = idleReq]
    /\ UNCHANGED <<storeVars, now, webhooks, firedSince, qin, qout, limits, calls, agent>>

\* The statements of handleResult after the request was read.
hrStep(h) ==
    \/ hrSaveResult(h)
    \/ hrRecentResultsPerProbe(h)
    \/ hrRecentResultsByProbe(h)
    \/ hrOpenIncidentCount(h)
    \/ hrOpenIncidentInsert(h)
    \/ hrGetCheck(h)
    \/ hrFire(h)
    \/ hrResolveIncident(h)
    \/ hrReturn(h)

\* The results the probes P may post.
Results(P) == [check_id : CheckIDs, probe_id : P, up : BOOLEAN, timestamp : {0}]

\* ------------------------------------------------------------------ specifications

\* Probe p has a POST /api/results in flight: postResult returns before the probe's
\* loop posts again.
Posting(p) == \E h \in Handlers : req[h].pc # "idle" /\ req[h].result.probe_id = p

\* The server with concurrent result handlers. A request takes the first free
\* goroutine.
Next ==
    \/ \E p \in RacingProbeIDs : handleProbeRegister(p)
    \/ \E h \in Handlers, r \in Results(RacingProbeIDs) :
        /\ \A g \in Handlers : g < h => req[g].pc # "idle"
        /\ ~Posting(r.probe_id)
        /\ hrIsProbeRegistered(h, r)
    \/ \E h \in Handlers : hrStep(h)

Spec == InitRacing /\ [][Next]_vars

\* No handleResult is in flight.
Quiet == \A h \in Handlers : req[h].pc = "idle"

\* The server with requests handled one at a time.
NextSeq ==
    \/ \E p \in ProbeIDs : Quiet /\ handleProbeRegister(p)
    \/ \E r \in Results(ProbeIDs) : Quiet /\ hrIsProbeRegistered(1, r)
    \/ hrStep(1)

SpecSeq == Init /\ [][NextSeq]_vars

\* The same state, bounded for concurrent handlers and heartbeats.
InitProbes ==
    /\ probes = {}
    /\ check_results = {}
    /\ incidents = {}
    /\ checks = {[id |-> "c1", target |-> "t1", webhook |-> "http://hook"]}
    /\ nextResultID = 1
    /\ nextIncidentID = 1
    /\ now = 0
    /\ req = [h \in Handlers |-> idleReq]
    /\ webhooks = <<>>
    /\ firedSince = [c \in CheckIDs |-> 0]
    /\ qin = <<>>
    /\ qout = [fn |-> "", val |-> FALSE]
    /\ limits = [rows |-> MaxSeen, time |-> MaxSeenTime]
    /\ calls = <<>>
    /\ agent = idleAgent

\* The server with register, heartbeat and result requests in any interleaving.
NextProbes ==
    \/ \E p \in RacingProbeIDs : handleProbeRegister(p)
    \/ \E p \in RacingProbeIDs : handleHeartbeat(p)
    \/ \E h \in Handlers, r \in Results(RacingProbeIDs) :
        /\ \A g \in Handlers : g < h => req[g].pc # "idle"
        /\ ~Posting(r.probe_id)
        /\ hrIsProbeRegistered(h, r)
    \/ \E h \in Handlers : hrStep(h)

SpecProbes == InitProbes /\ [][NextProbes]_vars

\* ------------------------------------------------------------------ quorum calls

\* Slices of length 0..MaxBallot.
Slices ==
    UNION {[1..n -> [probe_id : {"A"}, up : BOOLEAN]] : n \in 0..MaxBallot}

\* qin read as the log of probe A for check c1, oldest first.
LogOf(slice) ==
    {[id |-> k, check_id |-> "c1", probe_id |-> "A", up |-> slice[k].up, timestamp |-> 0] :
        k \in DOMAIN slice}

InitQuorum ==
    /\ probes = {}
    /\ check_results = {}
    /\ incidents = {}
    /\ checks = {[id |-> "c1", target |-> "t1", webhook |-> "http://hook"]}
    /\ nextResultID = 1
    /\ nextIncidentID = 1
    /\ now = 0
    /\ req = [h \in Handlers |-> idleReq]
    /\ webhooks = <<>>
    /\ firedSince = [c \in CheckIDs |-> 0]
    /\ qin \in Slices
    /\ qout = [fn |-> "", val |-> FALSE]
    /\ limits = [rows |-> 0, time |-> 0]
    /\ calls = <<>>
    /\ agent = idleAgent

\* quorum.MajorityDown(qin)
callMajorityDown ==
    /\ qout' = [fn |-> "MajorityDown", val |-> MajorityDown(qin)]
    /\ UNCHANGED <<storeVars, now, req, webhooks, firedSince, qin, limits, calls, agent>>

\* quorum.AllConsecutivelyDown(qin)
callAllConsecutivelyDown ==
    /\ qout' = [fn |-> "AllConsecutivelyDown", val |-> AllConsecutivelyDown(qin)]
    /\ UNCHANGED <<storeVars, now, req, webhooks, firedSince, qin, limits, calls, agent>>

\* quorum.AllConsecutivelyDown(store.RecentResultsByProbe(check, probe, 2)) on the
\* log qin.
callLastTwo ==
    /\ qout' = [fn |-> "LastTwo",
                val |-> AllConsecutivelyDown(RecentResultsByProbe(LogOf(qin), "c1", "A", 2))]
    /\ UNCHANGED <<storeVars, now, req, webhooks, firedSince, qin, limits, calls, agent>>

NextQuorum ==
    \/ callMajorityDown
    \/ callAllConsecutivelyDown
    \/ callLastTwo

\* The quorum functions applied to every slice.
SpecQuorum == InitQuorum /\ [][NextQuorum]_vars

\* ------------------------------------------------------------------ failing calls

\* The call at pc returns an error and handleResult answers status: every error
\* branch logs and either returns or falls through to the final WriteHeader.
hrFail(h, at, status) ==
    /\ req[h].pc = at
    /\ req' = [req EXCEPT ![h].pc = "done", ![h].status = status, ![h].err = at]
    /\ UNCHANGED <<storeVars, now, webhooks, firedSince, qin, qout, limits, calls, agent>>

\* IsProbeRegistered returns an error: 500.
hrIsProbeRegisteredErr(h, r) ==
    /\ req[h].pc = "idle"
    /\ req' = [req EXCEPT ![h] = [idleReq EXCEPT !.pc = "done", !.result = r,
                                                 !.status = 500,
                                                 !.err = "IsProbeRegistered"]]
    /\ UNCHANGED <<storeVars, now, webhooks, firedSince, qin, qout, limits, calls, agent>>

\* Faulty variant: the error of SaveResult is logged and the handler goes on.
hrSaveResultErrIgnored(h) ==
    /\ req[h].pc = "SaveResult"
    /\ req' = [req EXCEPT ![h].pc = "RecentResultsPerProbe", ![h].err = "SaveResult",
                          ![h].before = [incidents |-> incidents,
                                         webhooks |-> Len(webhooks),
                                         now |-> now]]
    /\ UNCHANGED <<storeVars, now, webhooks, firedSince, qin, qout, limits, calls, agent>>

\* SaveResult returns an error: 500, no row.
hrSaveResultErr(h) == hrFail(h, "SaveResult", 500)

\* RecentResultsPerProbe returns an error: the decision is skipped.
hrRecentResultsPerProbeErr(h) == hrFail(h, "RecentResultsPerProbe", 204)

\* RecentResultsByProbe returns an error: allConsecutive = false, break.
hrRecentResultsByProbeErr(h) == hrFail(h, "RecentResultsByProbe", 204)

\* OpenIncident returns the error of its SELECT.
hrOpenIncidentCountErr(h) == hrFail(h, "OpenIncident", 204)

\* Faulty variant: the error of OpenIncident is answered with 500.
hrOpenIncidentInsertErr500(h) == hrFail(h, "OpenIncidentInsert", 500)

\* OpenIncident returns the error of its INSERT: no row.
hrOpenIncidentInsertErr(h) == hrFail(h, "OpenIncidentInsert", 204)

\* GetCheck returns an error: checkByID returns nil, nothing is POSTed.
hrGetCheckErr(h) == hrFail(h, "GetCheck", 204)

\* alert.Fire returns an error: the POST failed, or it arrived and was answered
\* non-2xx.
hrFireErr(h) ==
    /\ req[h].pc = "Fire"
    /\ \/ UNCHANGED <<webhooks, firedSince>>
       \/ /\ webhooks' = Append(webhooks,
                [check_id |-> req[h].result.check_id, target |-> req[h].check.target,
                 status |-> "down", probes_down |-> countDown(req[h].recent),
                 probes_total |-> Len(req[h].recent)])
          /\ firedSince' = [firedSince EXCEPT ![req[h].result.check_id] = @ + 1]
    /\ req' = [req EXCEPT ![h].pc = "done", ![h].status = 204, ![h].err = "Fire"]
    /\ UNCHANGED <<storeVars, now, qin, qout, limits, calls, agent>>

\* ResolveIncident returns an error: no row is updated.
hrResolveIncidentErr(h) == hrFail(h, "ResolveIncident", 204)

\* The statements of handleResult after the request was read, failing.
hrFailStep(h) ==
    \/ hrSaveResultErr(h)
    \/ hrRecentResultsPerProbeErr(h)
    \/ hrRecentResultsByProbeErr(h)
    \/ hrOpenIncidentCountErr(h)
    \/ hrOpenIncidentInsertErr(h)
    \/ hrGetCheckErr(h)
    \/ hrFireErr(h)
    \/ hrResolveIncidentErr(h)

InitFaulty ==
    /\ probes = {}
    /\ check_results = {}
    /\ incidents = {}
    /\ checks = {[id |-> "c1", target |-> "t1", webhook |-> "http://hook"]}
    /\ nextResultID = 1
    /\ nextIncidentID = 1
    /\ now = 0
    /\ req = [h \in Handlers |-> idleReq]
    /\ webhooks = <<>>
    /\ firedSince = [c \in CheckIDs |-> 0]
    /\ qin = <<>>
    /\ qout = [fn |-> "", val |-> FALSE]
    /\ limits = [rows |-> MaxFaulty, time |-> 0]
    /\ calls = <<>>
    /\ agent = idleAgent

\* Results handled one at a time, every store call and the webhook POST free to fail.
NextFaulty ==
    \/ \E p \in RacingProbeIDs : Quiet /\ handleProbeRegister(p)
    \/ \E r \in Results(RacingProbeIDs) : Quiet /\ hrIsProbeRegistered(1, r)
    \/ \E r \in Results(RacingProbeIDs) : Quiet /\ hrIsProbeRegisteredErr(1, r)
    \/ hrStep(1)
    \/ hrFailStep(1)

SpecFaulty == InitFaulty /\ [][NextFaulty]_vars

\* Results handled one at a time, the webhook POST free to fail and nothing else.
NextHookDown ==
    \/ \E p \in RacingProbeIDs : Quiet /\ handleProbeRegister(p)
    \/ \E r \in Results(RacingProbeIDs) : Quiet /\ hrIsProbeRegistered(1, r)
    \/ hrStep(1)
    \/ hrFireErr(1)

SpecHookDown == InitFaulty /\ [][NextHookDown]_vars

\* ------------------------------------------------------------------ result queries

LogCheckIDs == {"c1", "c2"}
LogProbeIDs == {"A", "B"}

\* The logs SaveResult can have built: rows 1..n in arrival order, of any check and
\* probe, with the timestamps the probes put on them.
Logs ==
    UNION {[1..n -> [check_id : LogCheckIDs, probe_id : LogProbeIDs, up : BOOLEAN,
                     timestamp : {0, 1}]] : n \in 0..MaxLog}

RECURSIVE Saved(_, _)
\* The table after SaveResult of log[1], ..., log[n].
Saved(log, n) ==
    IF n = 0 THEN {} ELSE SaveResult(Saved(log, n - 1), n, log[n])

InitLog ==
    /\ probes = {}
    /\ \E log \in Logs :
        /\ check_results = Saved(log, Len(log))
        /\ nextResultID = Len(log) + 1
    /\ incidents = {}
    /\ checks = {[id |-> "c1", target |-> "t1", webhook |-> "http://hook"]}
    /\ nextIncidentID = 1
    /\ now = 0
    /\ req = [h \in Handlers |-> idleReq]
    /\ webhooks = <<>>
    /\ firedSince = [c \in CheckIDs |-> 0]
    /\ qin = <<>>
    /\ qout = [fn |-> "", val |-> FALSE]
    /\ limits = [rows |-> 0, time |-> 0]
    /\ calls = <<>>
    /\ agent = idleAgent

\* store.RecentResultsPerProbe(checkID)
callRecentResultsPerProbe(checkID) ==
    /\ qout' = [fn |-> "RecentResultsPerProbe", check_id |-> checkID,
                val |-> RecentResultsPerProbe(check_results, checkID)]
    /\ UNCHANGED <<storeVars, now, req, webhooks, firedSince, qin, limits, calls, agent>>

\* store.RecentResultsByProbe(checkID, probeID, n)
callRecentResultsByProbe(checkID, probeID, n) ==
    /\ qout' = [fn |-> "RecentResultsByProbe", check_id |-> checkID,
                probe_id |-> probeID, n |-> n,
                val |-> RecentResultsByProbe(check_results, checkID, probeID, n)]
    /\ UNCHANGED <<storeVars, now, req, webhooks, firedSince, qin, limits, calls, agent>>

\* One query per behaviour: a query changes nothing a later one reads.
NextLog ==
    \/ \E c \in LogCheckIDs : qout.fn = "" /\ callRecentResultsPerProbe(c)
    \/ \E c \in LogCheckIDs, p \in LogProbeIDs, n \in 0..MaxLimit :
        qout.fn = "" /\ callRecentResultsByProbe(c, p, n)

\* The two queries of the result log applied to every log.
SpecLog == InitLog /\ [][NextLog]_vars

\* ------------------------------------------------------------------ wacht-probe

\* cfg.ProbeID
AgentID == "A"

\* The ids of the rows of checks, and their order under ORDER BY id.
AgentCheckIDs == {"c1", "c2", "c3"}
AgentCheckOrder == <<"c1", "c2", "c3">>

\* SELECT id, type, target, webhook FROM checks ORDER BY id
ListAllChecks(rows) ==
    LET stored(id) == \E c \in rows : c.id = id
        ids        == SelectSeq(AgentCheckOrder, stored)
    IN  [k \in DOMAIN ids |-> CHOOSE c \in rows : c.id = ids[k]]

\* Faulty variant: the switch has no default case, every type is checked.
runsCheckerAny(type) == TRUE

\* switch c.Type: "http" and "" run check.HTTP, "tcp" check.TCP, "dns" check.DNS;
\* the default case runs none.
runsChecker(type) == type \in {"http", "", "tcp", "dns"}

\* What a request of the probe may meet: a status, or a transport error; a 200 of
\* GET /api/probes/checks may carry a body json.Decode rejects.
Outcomes == {"200", "204", "401", "500", "error", "undecodable"}

\* Faulty variant: the status is not compared, only a transport error is returned.
registerErrTransportOnly(outcome) == outcome = "error"

\* register returns an error unless the response is 204.
registerErr(outcome) == outcome # "204"

\* fetchChecks returns an error unless the response is 200 and its body decodes.
fetchChecksErr(outcome) == outcome # "200"

\* The server has decoded this result: a handler holds it or its row is stored.
\* The probe's clock gives every result of the probe another timestamp.
Accepted(r) ==
    \/ \E h \in Handlers : req[h].pc # "idle" /\ req[h].result = r
    \/ \E row \in check_results :
        /\ row.check_id = r.check_id
        /\ row.probe_id = r.probe_id
        /\ row.timestamp = r.timestamp

\* http.DefaultClient.Do has returned for this result: with an error before the
\* server read it, or with the response of the handler that stored it.
Returned(r) ==
    \/ r \in agent.dropped
    \/ /\ Accepted(r)
       /\ \A h \in Handlers : ~(req[h].pc # "idle" /\ req[h].result = r)

\* Faulty variant: go postResult(...), the loop does not wait for the response.
InFlightNever == FALSE

\* The check loop is inside postResult.
InFlight == \E r \in agent.sent : ~Returned(r)

\* A database with three checks, the second of a type the probe has no checker
\* for, and a probe process about to start.
InitAgent ==
    /\ probes = {}
    /\ check_results = {}
    /\ incidents = {}
    /\ \E t1 \in {"http", ""}, t3 \in {"tcp", "dns"} :
        checks = {[id |-> "c1", type |-> t1, target |-> "t1", webhook |-> "http://hook"],
                  [id |-> "c2", type |-> "icmp", target |-> "t2", webhook |-> ""],
                  [id |-> "c3", type |-> t3, target |-> "t3", webhook |-> ""]}
    /\ nextResultID = 1
    /\ nextIncidentID = 1
    /\ now = 0
    /\ req = [h \in Handlers |-> idleReq]
    /\ webhooks = <<>>
    /\ firedSince = [c \in AgentCheckIDs |-> 0]
    /\ qin = <<>>
    /\ qout = [fn |-> "", val |-> FALSE]
    /\ limits = [rows |-> MaxObs + 1, time |-> 0]
    /\ calls = <<>>
    /\ agent = idleAgent

agentFrame ==
    UNCHANGED <<storeVars, now, req, webhooks, firedSince, qin, qout, limits, calls>>

\* main calls register: the POST is sent.
agentRegister ==
    /\ agent.pc = "start"
    /\ agent' = [agent EXCEPT !.pc = "register"]
    /\ agentFrame

\* The server handles the probe's POST /api/probes/register.
agentRegisterServed ==
    /\ agent.pc = "register"
    /\ ~IsProbeRegistered(probes, AgentID)
    /\ handleProbeRegister(AgentID)

\* register returns; log.Fatalf on an error. A 204 is the answer of
\* handleProbeRegister; the other outcomes may or may not have reached it.
agentRegisterReturn(outcome) ==
    /\ agent.pc = "register"
    /\ outcome \in {"204", "401", "500", "error"}
    /\ outcome = "204" => IsProbeRegistered(probes, AgentID)
    /\ agent' = [agent EXCEPT !.register = outcome,
                              !.pc = IF registerErr(outcome) THEN "fatal"
                                                             ELSE "fetchChecks"]
    /\ agentFrame

\* fetchChecks returns: log.Fatalf on an error, else the list handleProbeChecks
\* encoded, and go heartbeatLoop(...).
agentFetchChecks(outcome) ==
    /\ agent.pc = "fetchChecks"
    /\ outcome \in {"200", "401", "500", "error", "undecodable"}
    /\ agent' = [agent EXCEPT !.fetch = outcome,
                              !.pc = IF fetchChecksErr(outcome) THEN "fatal" ELSE "loop",
                              !.checks = IF fetchChecksErr(outcome)
                                         THEN <<>> ELSE ListAllChecks(checks)]
    /\ agentFrame

\* heartbeatLoop: one POST /api/probes/heartbeat after each sleep.
agentHeartbeat ==
    /\ agent.pc = "loop"
    /\ agent.beats < MaxBeats
    /\ agent' = [agent EXCEPT !.beats = @ + 1]
    /\ agentFrame

\* The check loop: run check k, stamp the result with time.Now() and hand it to
\* postResult.
agentPostResult(up) ==
    /\ agent.pc = "loop"
    /\ agent.checks # <<>>
    /\ ~InFlight
    /\ runsChecker(agent.checks[agent.k].type)
    /\ agent.clock < MaxObs
    /\ agent' = [agent EXCEPT
            !.clock = @ + 1,
            !.k = (@ % Len(agent.checks)) + 1,
            !.sent = @ \cup {[check_id |-> agent.checks[agent.k].id, probe_id |-> AgentID,
                              up |-> up, timestamp |-> agent.clock + 1]}]
    /\ agentFrame

\* The check loop at a check of an unknown type: log and continue.
agentSkip ==
    /\ agent.pc = "loop"
    /\ agent.checks # <<>>
    /\ ~InFlight
    /\ ~runsChecker(agent.checks[agent.k].type)
    /\ agent' = [agent EXCEPT !.k = (@ % Len(agent.checks)) + 1]
    /\ agentFrame

\* Faulty variant: the loop answers the error with log.Fatalf.
agentPostResultErrFatal(r) ==
    /\ r \in agent.sent \ agent.dropped
    /\ ~Accepted(r)
    /\ agent' = [agent EXCEPT !.dropped = @ \cup {r}, !.pc = "fatal"]
    /\ agentFrame

\* http.DefaultClient.Do returns an error for a POST the server has not read:
\* postResult returns it, the loop logs it and goes on.
agentPostResultErr(r) ==
    /\ r \in agent.sent \ agent.dropped
    /\ ~Accepted(r)
    /\ agent' = [agent EXCEPT !.dropped = @ \cup {r}]
    /\ agentFrame

\* A POST /api/results of the probe reaches handleResult.
agentResultServed(h, r) ==
    /\ r \in agent.sent \ agent.dropped
    /\ ~Accepted(r)
    /\ \A g \in Handlers : g < h => req[g].pc # "idle"
    /\ hrIsProbeRegistered(h, r)

NextAgent ==
    \/ agentRegister
    \/ agentRegisterServed
    \/ \E outcome \in Outcomes : agentRegisterReturn(outcome)
    \/ \E outcome \in Outcomes : agentFetchChecks(outcome)
    \/ agentHeartbeat
    \/ \E up \in BOOLEAN : agentPostResult(up)
    \/ agentSkip
    \/ \E r \in agent.sent : agentPostResultErr(r)
    \/ \E h \in Handlers, r \in agent.sent : agentResultServed(h, r)
    \/ \E h \in Handlers : hrStep(h)

\* One probe process and the server it reports to.
SpecAgent == InitAgent /\ [][NextAgent]_vars

\* ------------------------------------------------------------------ clean outage

\* Probe A sees the target up; B and C see it down and post that as many times as
\* the threshold asks for.
UpProbe == "A"
DownProbeIDs == {"B", "C"}

InitOutage ==
    /\ probes = {}
    /\ check_results = {}
    /\ incidents = {}
    /\ checks = {[id |-> "c1", target |-> "t1", webhook |-> "http://hook"]}
    /\ nextResultID = 1
    /\ nextIncidentID = 1
    /\ now = 0
    /\ req = [h \in Handlers |-> idleReq]
    /\ webhooks = <<>>
    /\ firedSince = [c \in CheckIDs |-> 0]
    /\ qin = <<>>
    /\ qout = [fn |-> "", val |-> FALSE]
    /\ limits = [rows |-> 1 + 2 * consecutiveFailureThreshold, time |-> MaxOutageTime]
    /\ calls = <<>>
    /\ agent = idleAgent

\* Each probe registers once, before any result is posted.
outageRegister(p) ==
    /\ Quiet
    /\ check_results = {}
    /\ ~IsProbeRegistered(probes, p)
    /\ handleProbeRegister(p)

\* A posts up once all three probes are registered.
outagePostUp ==
    /\ Quiet
    /\ check_results = {}
    /\ \A p \in ProbeIDs : IsProbeRegistered(probes, p)
    /\ hrIsProbeRegistered(1, [check_id |-> "c1", probe_id |-> UpProbe, up |-> TRUE,
                                timestamp |-> 0])

\* After that B and C post down, each consecutiveFailureThreshold times.
outagePostDown(p) ==
    /\ Quiet
    /\ check_results # {}
    /\ Len(RecentResultsByProbe(check_results, "c1", p, consecutiveFailureThreshold))
            < consecutiveFailureThreshold
    /\ hrIsProbeRegistered(1, [check_id |-> "c1", probe_id |-> p, up |-> FALSE,
                                timestamp |-> 0])

NextOutage ==
    \/ \E p \in ProbeIDs : outageRegister(p)
    \/ outagePostUp
    \/ \E p \in DownProbeIDs : outagePostDown(p)
    \/ hrStep(1)

\* The clean outage: three probes, results handled one at a time.
SpecOutage == InitOutage /\ [][NextOutage]_vars

\* ------------------------------------------------------------------ shared secret

\* h.config.Secret, and what r.Header.Get("X-Wacht-Secret") may return: the secret,
\* another value, or "" when the header is absent.
Secret == "s3cret"
Headers == {Secret, "wrong", ""}

AuthProbeIDs == {"A"}

\* In SpecAuth qout is the request on the wire, [fn |-> route, header |-> its
\* X-Wacht-Secret, val |-> 0 until it is answered by the middleware or by
\* handleProbeChecks], and qin holds its body. A request the middleware let through
\* stays on the wire until the next one is sent and may be served again, as a
\* retransmission would be.
InitAuth ==
    /\ probes = {}
    /\ check_results = {}
    /\ incidents = {}
    /\ checks = {[id |-> "c1", target |-> "t1", webhook |-> "http://hook"]}
    /\ nextResultID = 1
    /\ nextIncidentID = 1
    /\ now = 0
    /\ req = [h \in Handlers |-> idleReq]
    /\ webhooks = <<>>
    /\ firedSince = [c \in CheckIDs |-> 0]
    /\ qin = <<>>
    /\ qout = [fn |-> "", header |-> Secret, val |-> 0]
    /\ limits = [rows |-> MaxAuth, time |-> MaxAuthTime]
    /\ calls = <<>>
    /\ agent = idleAgent

\* A client sends a request to a probe-facing route. A request refused by the
\* middleware is answered before the next one is sent.
send(route, header, body) ==
    /\ Quiet
    /\ qout.header # Secret => qout.val = 401
    /\ qout' = [fn |-> route, header |-> header, val |-> 0]
    /\ qin' = body
    /\ UNCHANGED <<storeVars, now, req, webhooks, firedSince, limits, calls, agent>>

\* Faulty variant: the middleware does not compare the header.
requireSecretOpen(next) == next

\* requireSecret(next): 401 unless the header equals the configured secret.
requireSecret(next) ==
    IF qout.header # Secret
    THEN /\ qout' = [qout EXCEPT !.val = 401]
         /\ UNCHANGED <<storeVars, now, req, webhooks, firedSince, qin, limits, calls, agent>>
    ELSE next

\* GET /api/probes/checks: 200 with the rows of checks.
handleProbeChecks ==
    /\ qout' = [qout EXCEPT !.val = 200]
    /\ UNCHANGED <<storeVars, now, req, webhooks, firedSince, qin, limits, calls, agent>>

\* mux.Handle("/api/probes/", h.requireSecret(probe)): POST /api/probes/register
routeRegister ==
    /\ qout.fn = "register" /\ qout.val = 0
    /\ requireSecret(handleProbeRegister(qin[1].probe_id))

\* mux.Handle("/api/probes/", h.requireSecret(probe)): POST /api/probes/heartbeat
routeHeartbeat ==
    /\ qout.fn = "heartbeat" /\ qout.val = 0
    /\ requireSecret(handleHeartbeat(qin[1].probe_id))

\* mux.Handle("/api/probes/", h.requireSecret(probe)): GET /api/probes/checks
routeChecks ==
    /\ qout.fn = "checks" /\ qout.val = 0
    /\ requireSecret(handleProbeChecks)

\* mux.Handle("/api/results", h.requireSecret(probe)): POST /api/results
routeResults ==
    /\ qout.fn = "results" /\ qout.val = 0
    /\ requireSecret(hrIsProbeRegistered(1, qin[1]))

\* The probe-facing routes, requests handled one at a time.
NextAuth ==
    \/ \E x \in Headers, p \in AuthProbeIDs : send("register", x, <<[probe_id |-> p]>>)
    \/ \E x \in Headers, p \in AuthProbeIDs : send("heartbeat", x, <<[probe_id |-> p]>>)
    \/ \E x \in Headers : send("checks", x, <<>>)
    \/ \E x \in Headers, r \in Results(AuthProbeIDs) : send("results", x, <<r>>)
    \/ Quiet /\ routeRegister
    \/ Quiet /\ routeHeartbeat
    \/ Quiet /\ routeChecks
    \/ Quiet /\ routeResults
    \/ hrStep(1)

SpecAuth == InitAuth /\ [][NextAuth]_vars

\* ------------------------------------------------------------------ seeding

\* Faulty variant: ON CONFLICT(id) DO UPDATE, the seed overwrites the stored row.
InsertCheckUpsert(rows, c) ==
    {r \in rows : r.id # c.id} \cup {c}

\* INSERT INTO checks (id, type, target, webhook) VALUES (...) ON CONFLICT(id) DO NOTHING
InsertCheck(rows, c) ==
    IF \E r \in rows : r.id = c.id THEN rows ELSE rows \cup {c}

RECURSIVE SeedChecks(_, _)
\* for _, c := range checks { INSERT ... }
SeedChecks(rows, list) ==
    IF list = <<>> THEN rows ELSE SeedChecks(InsertCheck(rows, Head(list)), Tail(list))

\* The checks a seed list may carry: two ids, each with either of two definitions.
SeedCheckRows ==
    [id : {"c1", "c2"}, type : {"http"}, target : {"t1"}, webhook : {"http://hook"}]
        \cup [id : {"c1", "c2"}, type : {"tcp"}, target : {"t2"}, webhook : {""}]

SeedLists == UNION {[1..n -> SeedCheckRows] : n \in 0..MaxSeedLen}

\* A database without checks.
InitSeed ==
    /\ probes = {}
    /\ check_results = {}
    /\ incidents = {}
    /\ checks = {}
    /\ nextResultID = 1
    /\ nextIncidentID = 1
    /\ now = 0
    /\ req = [h \in Handlers |-> idleReq]
    /\ webhooks = <<>>
    /\ firedSince = [c \in CheckIDs |-> 0]
    /\ qin = <<>>
    /\ qout = [fn |-> "", val |-> FALSE]
    /\ limits = [rows |-> 0, time |-> 0]
    /\ calls = <<>>
    /\ agent = idleAgent

\* store.SeedChecks(list) returning nil. qin is the list, qout.val says err == nil.
callSeedChecks(list) ==
    /\ checks' = SeedChecks(checks, list)
    /\ qin' = list
    /\ qout' = [fn |-> "SeedChecks", val |-> TRUE]
    /\ UNCHANGED <<probes, check_results, incidents, nextResultID, nextIncidentID,
                   now, req, webhooks, firedSince, limits, calls, agent>>

\* store.SeedChecks(list) when the INSERT of list[k] fails: the checks before it
\* are seeded, the error is returned.
callSeedChecksErr(list, k) ==
    /\ checks' = SeedChecks(checks, SubSeq(list, 1, k - 1))
    /\ qin' = list
    /\ qout' = [fn |-> "SeedChecks", val |-> FALSE]
    /\ UNCHANGED <<probes, check_results, incidents, nextResultID, nextIncidentID,
                   now, req, webhooks, firedSince, limits, calls, agent>>

NextSeed ==
    \/ \E list \in SeedLists : callSeedChecks(list)
    \/ \E list \in SeedLists, k \in 1..MaxSeedLen :
        k <= Len(list) /\ callSeedChecksErr(list, k)

\* SeedChecks called any number of times with any lists.
SpecSeed == InitSeed /\ [][NextSeed]_vars

\* ------------------------------------------------------------------ request bodies

\* A field the JSON object does not have.
Missing == "<missing>"
\* check_id values in bodies: c1 has a webhook, c2 an empty one, c3 no row in checks.
BodyCheckIDs == {"c1", "c2", "c3"}
\* probe_id values in bodies: A registers, B never does.
BodyProbeIDs == {"A", "B"}

\* A body that is not JSON.
Malformed == [wellformed |-> FALSE, check_id |-> Missing, probe_id |-> Missing, up |-> FALSE]

\* The bodies POSTed to /api/results.
Bodies ==
    {Malformed} \cup [wellformed : {TRUE}, check_id : BodyCheckIDs \cup {Missing},
                      probe_id : BodyProbeIDs \cup {Missing}, up : BOOLEAN]

\* json.NewDecoder(r.Body).Decode(&result): an error for a body that is not JSON, and
\* the zero value for every field the object does not have.
Decode(body) ==
    IF ~body.wellformed THEN [err |-> TRUE, result |-> NoResult]
    ELSE [err |-> FALSE,
          result |-> [check_id |-> IF body.check_id = Missing THEN "" ELSE body.check_id,
                      probe_id |-> IF body.probe_id = Missing THEN "" ELSE body.probe_id,
                      up |-> body.up, timestamp |-> 0]]

\* handleResult from the body on: 400 when it does not decode.
hrDecode(h, body) ==
    IF Decode(body).err
    THEN /\ req[h].pc = "idle"
         /\ req' = [req EXCEPT ![h] = [idleReq EXCEPT !.pc = "done", !.status = 400,
                                                      !.err = "Decode"]]
         /\ UNCHANGED <<storeVars, now, webhooks, firedSince, qin, qout, limits, calls, agent>>
    ELSE hrIsProbeRegistered(h, Decode(body).result)

InitBodies ==
    /\ probes = {}
    /\ check_results = {}
    /\ incidents = {}
    /\ checks = {[id |-> "c1", target |-> "t1", webhook |-> "http://hook"],
                 [id |-> "c2", target |-> "t2", webhook |-> ""]}
    /\ nextResultID = 1
    /\ nextIncidentID = 1
    /\ now = 0
    /\ req = [h \in Handlers |-> idleReq]
    /\ webhooks = <<>>
    /\ firedSince = [c \in BodyCheckIDs \cup {""} |-> 0]
    /\ qin = <<>>
    /\ qout = [fn |-> "", val |-> FALSE]
    /\ limits = [rows |-> MaxBodies, time |-> 0]
    /\ calls = <<>>
    /\ agent = idleAgent

\* Bodies handled one at a time. handleProbeRegister answers 400 to an empty probe_id,
\* so only named probes register.
NextBodies ==
    \/ Quiet /\ handleProbeRegister("A")
    \/ \E body \in Bodies : Quiet /\ hrDecode(1, body)
    \/ hrStep(1)

SpecBodies == InitBodies /\ [][NextBodies]_vars

\* ------------------------------------------------------------------ store calls

\* check_id values the store is called with directly.
StoreCheckIDs == {"c1", "c2"}

\* A fresh store, as newTestStore gives it.
InitStore ==
    /\ probes = {}
    /\ check_results = {}
    /\ incidents = {}
    /\ checks = {}
    /\ nextResultID = 1
    /\ nextIncidentID = 1
    /\ now = 0
    /\ req = [h \in Handlers |-> idleReq]
    /\ webhooks = <<>>
    /\ firedSince = [c \in CheckIDs |-> 0]
    /\ qin = <<>>
    /\ qout = [fn |-> "", val |-> FALSE]
    /\ limits = [rows |-> MaxCalls, time |-> MaxStoreTime]
    /\ calls = <<>>
    /\ agent = idleAgent

\* alreadyOpen, err := s.OpenIncident(checkID), by a caller that is alone on the store.
callOpenIncident(checkID) ==
    /\ Len(calls) < limits.rows
    /\ LET count == OpenIncidentCount(incidents, checkID)
       IN  /\ IF count > 0
              THEN UNCHANGED <<incidents, nextIncidentID, now>>
              ELSE /\ \E t \in TimeNow :
                        /\ now' = t
                        /\ incidents' = OpenIncidentInsert(incidents, nextIncidentID, checkID, t)
                   /\ nextIncidentID' = nextIncidentID + 1
           /\ calls' = Append(calls, [fn |-> "OpenIncident", check_id |-> checkID,
                                      alreadyOpen |-> count > 0,
                                      before |-> incidents, after |-> incidents'])
    /\ UNCHANGED <<probes, check_results, checks, nextResultID, req, webhooks,
                   firedSince, qin, qout, limits,
                   agent>>

\* err := s.ResolveIncident(checkID)
callResolveIncident(checkID) ==
    /\ Len(calls) < limits.rows
    /\ \E t \in TimeNow :
        /\ now' = t
        /\ incidents' = ResolveIncident(incidents, checkID, t)
    /\ calls' = Append(calls, [fn |-> "ResolveIncident", check_id |-> checkID,
                               alreadyOpen |-> FALSE,
                               before |-> incidents, after |-> incidents'])
    /\ UNCHANGED <<probes, check_results, checks, nextResultID, nextIncidentID, req,
                   webhooks, firedSince, qin, qout, limits,
                   agent>>

NextStore ==
    \/ \E c \in StoreCheckIDs : callOpenIncident(c)
    \/ \E c \in StoreCheckIDs : callResolveIncident(c)

\* The incident functions of the store called one after the other.
SpecStore == InitStore /\ [][NextStore]_vars

\* ------------------------------------------------------------------ the stored state, read directly

\* The rows of check c, and those of probe p among them.
RowsOfCheck(c) == {r \in check_results : r.check_id = c}
RowsOf(c, p) == {r \in check_results : r.check_id = c /\ r.probe_id = p}

\* The probes that have a row for c; the newest row of each.
Reported(c) == {r.probe_id : r \in RowsOfCheck(c)}
Newest(c, p) ==
    LET rows == RowsOf(c, p)
    IN  CHOOSE r \in rows : \A q \in rows : q.id <= r.id

\* The probes whose newest row for c is down.
DownProbes(c) == {p \in Reported(c) : ~Newest(c, p).up}

\* More than half of the reporting probes are down.
StrictMajorityDown(c) == 2 * Cardinality(DownProbes(c)) > Cardinality(Reported(c))

\* p has at least two rows for c and the two newest are down.
TwoNewestDown(c, p) ==
    LET rows == RowsOf(c, p)
    IN  \E r1 \in rows :
            /\ ~r1.up
            /\ \A q \in rows : q.id <= r1.id
            /\ \E r2 \in rows \ {r1} :
                    /\ ~r2.up
                    /\ \A q \in rows \ {r1} : q.id <= r2.id

\* Majority-down, and every down probe is down twice in a row.
Conclusive(c) == StrictMajorityDown(c) /\ \A p \in DownProbes(c) : TwoNewestDown(c, p)

\* Majority-down, and some down probe is not down twice in a row.
Inconclusive(c) == StrictMajorityDown(c) /\ \E p \in DownProbes(c) : ~TwoNewestDown(c, p)

\* The open incidents of c in a table.
OpenIn(rows, c) == {i \in rows : i.check_id = c /\ i.resolved_at = NULL}

\* h has appended its result; h has answered 204.
Appended(h) == req[h].pc \notin {"idle", "SaveResult"} /\ req[h].status # 403
Answered(h) == req[h].pc = "done" /\ req[h].status = 204

\* Since h appended its result, no incident row and no webhook was added or changed.
NoTransition(h) ==
    /\ incidents = req[h].before.incidents
    /\ Len(webhooks) = req[h].before.webhooks

\* ------------------------------------------------------------------ claims

\* C1: in every reachable state every check_id has at most one incident row with
\* resolved_at = NULL, also when handleResult invocations for it run concurrently.
AtMostOneOpenIncident ==
    \A c \in CheckIDs : Cardinality(OpenIn(incidents, c)) <= 1

\* C2: for every check at most one "down" webhook is dispatched between two
\* consecutive resolutions of its incident (or before the first), also when results
\* for it are ingested concurrently.
WebhookAtMostOncePerTransition ==
    \A c \in CheckIDs : firedSince[c] <= 1

\* C3: with results handled one at a time, a result ingested while an incident is
\* open and whose ballot is majority-down with every down probe down twice in a row
\* creates no incident row, leaves the open incident as it was and dispatches no
\* webhook.
DedupWhenAlreadyOpen ==
    \A h \in Handlers :
        LET c == req[h].result.check_id
        IN  \/ NoTransition(h)
            \/ ~(Appended(h) /\ OpenIn(req[h].before.incidents, c) # {} /\ Conclusive(c))

\* C3 happens: a conclusive round was answered with the incident already open.
DedupWhenAlreadyOpenWitness ==
    \E h \in Handlers :
        LET c == req[h].result.check_id
        IN  /\ Answered(h)
            /\ OpenIn(req[h].before.incidents, c) # {}
            /\ Conclusive(c)
            /\ req[h].count > 0

\* The history the loop of h read for probe p, as a set (one element once read).
HistoriesRead(h, p) == {x[2] : x \in {y \in req[h].histories : y[1] = p}}

\* What h has read allows an incident: a ballot with a strict majority down, for
\* every down row of it a history of two down results, and a count of zero open
\* incidents.
ReadConclusive(h) ==
    LET recent == req[h].recent
        down   == {k \in DOMAIN recent : ~recent[k].up}
    IN  /\ 2 * Cardinality(down) > Len(recent)
        /\ \A k \in down :
              \E hist \in HistoriesRead(h, recent[k].probe_id) :
                  Len(hist) = 2 /\ ~hist[1].up /\ ~hist[2].up
        /\ req[h].count = 0

\* C4: an incident row is created only by a handleResult invocation for that check
\* that read a majority-down ballot, read for every down probe of the ballot two
\* newest results that are both down, and counted no open incident; a probe's
\* first-ever down result alone (a history of one row) never creates one.
IncidentCreatedOnlyWhenConclusive ==
    [][\A i \in incidents' :
          (i.id \notin {j.id : j \in incidents}) =>
              \E h \in Handlers :
                  /\ req[h].pc = "OpenIncidentInsert"
                  /\ req'[h].pc # "OpenIncidentInsert"
                  /\ req[h].result.check_id = i.check_id
                  /\ i.resolved_at = NULL
                  /\ ReadConclusive(h)]_vars

\* C4 happens: an invocation has just created an incident.
IncidentCreatedWitness ==
    \E h \in Handlers :
        /\ req[h].pc = "GetCheck"
        /\ OpenIn(incidents, req[h].result.check_id) # {}
        /\ Len(req[h].recent) = 2

\* C5: with results handled one at a time and no store failure, after a handleResult
\* whose ballot is majority-down with every down probe down twice in a row an
\* incident is open for the check.
OpenAfterConclusive ==
    \A h \in Handlers :
        LET c == req[h].result.check_id
        IN  (Answered(h) /\ Conclusive(c)) => OpenIn(incidents, c) # {}

\* C5 happens: the invocation found no incident open and opened one.
OpenAfterConclusiveWitness ==
    \E h \in Handlers :
        LET c == req[h].result.check_id
        IN  /\ Answered(h)
            /\ Conclusive(c)
            /\ OpenIn(req[h].before.incidents, c) = {}
            /\ OpenIn(incidents, c) # {}
            /\ Cardinality(Reported(c)) = 2

\* C6: a round that is majority-down with some down probe not down twice in a row
\* neither opens nor resolves an incident and dispatches no webhook: the incidents
\* table is the same before and after the decision.
InconclusiveChangesNothing ==
    \A h \in Handlers :
        LET c == req[h].result.check_id
        IN  \/ NoTransition(h)
            \/ ~(Appended(h) /\ Inconclusive(c))

\* C6 happens: an inconclusive round was answered while an incident stayed open.
InconclusiveChangesNothingWitness ==
    \E h \in Handlers :
        LET c == req[h].result.check_id
        IN  /\ Answered(h)
            /\ Inconclusive(c)
            /\ OpenIn(incidents, c) # {}

\* C7: with results handled one at a time and no store failure, after a handleResult
\* whose ballot is not majority-down no incident is open for the check.
ResolvedAfterNotMajorityDown ==
    \A h \in Handlers :
        LET c == req[h].result.check_id
        IN  (Answered(h) /\ ~StrictMajorityDown(c)) => OpenIn(incidents, c) = {}

\* C7 happens: the invocation resolved the incident that was open.
ResolvedAfterNotMajorityDownWitness ==
    \E h \in Handlers :
        LET c == req[h].result.check_id
        IN  /\ Answered(h)
            /\ ~StrictMajorityDown(c)
            /\ OpenIn(req[h].before.incidents, c) # {}
            /\ \E i \in incidents : i.check_id = c /\ i.resolved_at # NULL

\* The number of down rows of a slice, counted apart from the code.
Downs(slice) == Cardinality({k \in DOMAIN slice : slice[k].up = FALSE})

\* C8: MajorityDown(ballot) is true iff the ballot is non-empty and twice the number
\* of down entries exceeds the number of entries; a tie and the empty ballot are
\* not majority-down.
MajorityDownIsStrict ==
    qout.fn = "MajorityDown" =>
        (qout.val <=> (Len(qin) > 0 /\ 2 * Downs(qin) > Len(qin)))

\* C8 happens: two down of four was judged not majority-down.
MajorityDownIsStrictWitness ==
    /\ qout.fn = "MajorityDown"
    /\ Len(qin) = 4
    /\ Downs(qin) = 2
    /\ ~qout.val

\* The ballot of c is one probe, and it is down.
SingleProbeDown(c) == Cardinality(Reported(c)) = 1 /\ DownProbes(c) = Reported(c)

\* C9 as stated: when the ballot holds exactly one probe and its latest result is
\* down, the round is not majority-down and no incident is opened, whatever the
\* probe's history.
SingleProbeDownOpensNothing ==
    \A h \in Handlers :
        LET c == req[h].result.check_id
        IN  (Appended(h) /\ SingleProbeDown(c)) => NoTransition(h)

\* C9 as amended: when the ballot holds exactly one probe and its latest result is
\* down, the round is majority-down (1 > 1/2 = 0): once answered an incident is open
\* iff the probe's two newest results are both down, and when they are not the
\* incidents table is unchanged and no webhook is dispatched.
SingleProbeDownOpensIffTwice ==
    \A h \in Handlers :
        LET c == req[h].result.check_id
        IN  (Answered(h) /\ SingleProbeDown(c)) =>
                /\ OpenIn(incidents, c) # {} <=> \A p \in Reported(c) : TwoNewestDown(c, p)
                /\ (\E p \in Reported(c) : ~TwoNewestDown(c, p)) => NoTransition(h)

\* C9 happens: a lone probe that is down twice in a row opened an incident.
SingleProbeDownOpensIffTwiceWitness ==
    \E h \in Handlers :
        LET c == req[h].result.check_id
        IN  /\ Answered(h)
            /\ SingleProbeDown(c)
            /\ OpenIn(req[h].before.incidents, c) = {}
            /\ OpenIn(incidents, c) # {}
            /\ Len(webhooks) = req[h].before.webhooks + 1

\* C10: AllConsecutivelyDown(history) is true iff the history has at least 2 entries
\* and every entry is down; applied to the last 2 results of a probe it is true iff
\* the probe has two newest results and both are down.
AllConsecutivelyDownIsTwoDown ==
    /\ qout.fn = "AllConsecutivelyDown" =>
            (qout.val <=> (Len(qin) >= 2 /\ Downs(qin) = Len(qin)))
    /\ qout.fn = "LastTwo" =>
            (qout.val <=> (Len(qin) >= 2 /\ qin[Len(qin)].up = FALSE
                                         /\ qin[Len(qin) - 1].up = FALSE))

\* C10 happens: a log ending up, down, down passes as its last two are down, while
\* the whole slice does not.
AllConsecutivelyDownIsTwoDownWitness ==
    /\ qout.fn = "LastTwo"
    /\ qout.val
    /\ Len(qin) >= 3
    /\ Downs(qin) < Len(qin)

WebhookOnEachTransition ==
    \A h \in Handlers :
        LET c == req[h].result.check_id
            was == OpenIn(req[h].before.incidents, c)
            is == OpenIn(incidents, c)
        IN  Answered(h) =>
                /\ (was = {} /\ is # {}) =>
                        /\ Len(webhooks) = req[h].before.webhooks + 1
                        /\ webhooks[Len(webhooks)].status = "down"
                /\ (was # {} /\ is = {}) =>
                        /\ Len(webhooks) = req[h].before.webhooks + 1
                        /\ webhooks[Len(webhooks)].status = "up"

\* probe_id p has a row in probes.
Registered(p) == \E row \in probes : row.probe_id = p

\* C14: a result is answered 403 exactly when its probe_id has no row in probes, and
\* the steps of an invocation answered 403 change neither check_results, incidents
\* and probes nor the POSTed payloads.
UnregisteredRejected ==
    [][\A h \in Handlers :
          /\ (req[h].pc = "idle" /\ req'[h].pc # "idle") =>
                (req'[h].status = 403 <=> ~Registered(req'[h].result.probe_id))
          /\ (req'[h] # req[h] /\ (req[h].status = 403 \/ req'[h].status = 403)) =>
                /\ UNCHANGED <<probes, check_results, incidents, webhooks>>
                /\ req'[h].pc \in {"done", "idle"}]_vars

\* C14 happens: with results stored and an incident open, a result of a probe that
\* never registered was answered 403.
UnregisteredRejectedWitness ==
    \E h \in Handlers :
        /\ req[h].pc = "done"
        /\ req[h].status = 403
        /\ ~Registered(req[h].result.probe_id)
        /\ check_results # {}
        /\ \E i \in incidents : i.resolved_at = NULL

\* Call k is fn(c).
IsCall(k, fn, c) == calls[k].fn = fn /\ calls[k].check_id = c

\* C15: of two OpenIncident(c) calls with no ResolveIncident(c) between them the
\* second returns alreadyOpen = true and leaves the incidents table unchanged, and
\* the first, made with no incident open for c, returns alreadyOpen = false and adds
\* one row, the only open incident of c.
OpenIncidentIdempotent ==
    \A c \in StoreCheckIDs : \A j, k \in DOMAIN calls :
        (/\ j < k
         /\ IsCall(j, "OpenIncident", c)
         /\ IsCall(k, "OpenIncident", c)
         /\ \A m \in (j + 1)..(k - 1) : ~IsCall(m, "ResolveIncident", c)) =>
            /\ calls[k].alreadyOpen
            /\ calls[k].after = calls[k].before
            /\ OpenIn(calls[j].before, c) = {} =>
                    /\ ~calls[j].alreadyOpen
                    /\ Cardinality(calls[j].after \ calls[j].before) = 1
                    /\ calls[j].before \subseteq calls[j].after
                    /\ Cardinality(OpenIn(calls[j].after, c)) = 1

\* C15 happens: OpenIncident(c1) opened an incident, another check was opened, and a
\* second OpenIncident(c1) found it open.
OpenIncidentIdempotentWitness ==
    \E j, k \in DOMAIN calls :
        /\ j + 1 < k
        /\ IsCall(j, "OpenIncident", "c1")
        /\ ~calls[j].alreadyOpen
        /\ IsCall(j + 1, "OpenIncident", "c2")
        /\ IsCall(k, "OpenIncident", "c1")
        /\ calls[k].alreadyOpen
        /\ \A m \in (j + 1)..(k - 1) : ~IsCall(m, "ResolveIncident", "c1")

\* C16: ResolveIncident(c) called with no incident open for c leaves the incidents
\* table as it was, resolved incidents of c and incidents of other checks included.
ResolveWithoutOpenIsNoOp ==
    \A c \in StoreCheckIDs : \A k \in DOMAIN calls :
        (IsCall(k, "ResolveIncident", c) /\ OpenIn(calls[k].before, c) = {})
            => calls[k].after = calls[k].before

\* C16 happens: ResolveIncident(c1) was called, at a later time, on a table holding a
\* resolved incident of c1 and an open one of c2.
ResolveWithoutOpenIsNoOpWitness ==
    /\ calls # <<>>
    /\ IsCall(Len(calls), "ResolveIncident", "c1")
    /\ OpenIn(calls[Len(calls)].before, "c1") = {}
    /\ OpenIn(calls[Len(calls)].before, "c2") # {}
    /\ \E i \in calls[Len(calls)].before :
            i.check_id = "c1" /\ i.resolved_at # NULL /\ i.resolved_at < now

\* The open/resolve cycles of c: the ResolveIncident(c) calls whose latest earlier call
\* on c is an OpenIncident.
Cycles(c) ==
    {k \in DOMAIN calls :
        /\ IsCall(k, "ResolveIncident", c)
        /\ \E j \in 1..(k - 1) :
            /\ IsCall(j, "OpenIncident", c)
            /\ \A m \in (j + 1)..(k - 1) : calls[m].check_id # c}

\* C17: the OpenIncident(c) that follows a ResolveIncident(c) returns alreadyOpen =
\* false and adds an open incident while every earlier row stays as it was, and after
\* n open/resolve cycles of c there are exactly n resolved incidents of c.
ResolveAllowsReopening ==
    \A c \in StoreCheckIDs :
        /\ \A j, k \in DOMAIN calls :
            (/\ j < k
             /\ IsCall(j, "ResolveIncident", c)
             /\ IsCall(k, "OpenIncident", c)
             /\ \A m \in (j + 1)..(k - 1) : calls[m].check_id # c) =>
                /\ ~calls[k].alreadyOpen
                /\ calls[k].before \subseteq calls[k].after
                /\ Cardinality(OpenIn(calls[k].after, c)) = 1
                /\ \A i \in calls[k].before : i.check_id = c => i.resolved_at # NULL
        /\ Cardinality({i \in incidents : i.check_id = c /\ i.resolved_at # NULL})
                = Cardinality(Cycles(c))

\* C17 happens: after two open/resolve cycles c1 was opened a third time.
ResolveAllowsReopeningWitness ==
    /\ Cardinality(Cycles("c1")) = 2
    /\ Cardinality({i \in incidents : i.check_id = "c1" /\ i.resolved_at # NULL}) = 2
    /\ OpenIn(incidents, "c1") # {}

\* Check c has a row in checks with a webhook URL.
HasWebhook(c) == \E row \in checks : row.id = c /\ row.webhook # ""

\* The incidents of c created since h appended its result.
CreatedSince(h, c) == {i \in incidents \ req[h].before.incidents : i.check_id = c}

\* C11: a payload is POSTed only by an invocation at alert.Fire that counted no open
\* incident and created the incident of its check, and whose check has a webhook
\* URL; an invocation that opens the incident of a check with an empty webhook, or
\* with no row in checks, leaves the incident open and POSTs nothing.
WebhookOnlyOnOwnRisingEdge ==
    /\ [][webhooks' # webhooks =>
            \E h \in Handlers :
                LET c == req[h].result.check_id
                IN  /\ req[h].pc = "Fire"
                    /\ req[h].count = 0
                    /\ CreatedSince(h, c) # {}
                    /\ HasWebhook(c)
                    /\ webhooks' = Append(webhooks, webhooks'[Len(webhooks')])
                    /\ webhooks'[Len(webhooks')].check_id = c]_vars
    /\ [](\A h \in Handlers :
            LET c == req[h].result.check_id
            IN  (/\ Answered(h)
                 /\ Conclusive(c)
                 /\ OpenIn(req[h].before.incidents, c) = {}
                 /\ ~HasWebhook(c)) =>
                    /\ CreatedSince(h, c) # {}
                    /\ OpenIn(incidents, c) # {}
                    /\ Len(webhooks) = req[h].before.webhooks)

\* C11 happens: the incident of c2 (empty webhook) was opened and nothing was POSTed,
\* and an invocation that created the incident of c1 is about to POST.
WebhookOnlyOnOwnRisingEdgeWitness ==
    /\ OpenIn(incidents, "c2") # {}
    /\ webhooks = <<>>
    /\ \E h \in Handlers :
        /\ req[h].pc = "Fire"
        /\ req[h].result.check_id = "c1"
        /\ CreatedSince(h, "c1") # {}

\* C19 as stated: a body that is not JSON, a body without check_id or probe_id, and a
\* body of an unknown probe are answered 4xx, and no row of check_results or incidents
\* comes from them.
ProtocolErrorsWriteNothing ==
    /\ \A h \in Handlers :
        LET r == req[h].result
        IN  (req[h].pc # "idle" /\ (r.check_id = "" \/ r.probe_id = "" \/ ~Registered(r.probe_id)))
                => (req[h].pc = "done" /\ req[h].status \in {400, 403})
    /\ \A row \in check_results : row.check_id # "" /\ row.probe_id # ""
    /\ \A i \in incidents : i.check_id # ""

\* C18: every statement of handleResult after the append ends the invocation with
\* 204 whether it fails or not, and an invocation whose ballot query or history query
\* failed has answered 204 without adding or changing an incident or POSTing.
EngineNeverFailsIngest ==
    /\ [][\A h \in Handlers :
            (req[h].pc \notin {"idle", "SaveResult", "done"} /\ req'[h].pc = "done")
                => req'[h].status = 204]_vars
    /\ [](\A h \in Handlers :
            req[h].err \in {"RecentResultsPerProbe", "RecentResultsByProbe"} =>
                /\ req[h].pc = "done"
                /\ req[h].status = 204
                /\ NoTransition(h))

\* C18 happens: with an incident open, a result that makes the ballot not
\* majority-down was appended, the ballot query failed, and the incident stayed open.
EngineNeverFailsIngestWitness ==
    \E h \in Handlers :
        LET c == req[h].result.check_id
        IN  /\ req[h].err = "RecentResultsPerProbe"
            /\ req[h].status = 204
            /\ ~StrictMajorityDown(c)
            /\ OpenIn(incidents, c) # {}

\* C20: a failing registration lookup is answered 500 with nothing appended; a failing
\* SaveResult is answered 500 with the incidents and the POSTed payloads unchanged; and
\* an invocation answered 500 does nothing more than end.
StorageErrorsSurface ==
    [][\A h \in Handlers :
          /\ (req[h].pc = "idle" /\ req'[h].err = "IsProbeRegistered") =>
                /\ req'[h].pc = "done"
                /\ req'[h].status = 500
                /\ UNCHANGED <<probes, check_results, incidents, webhooks>>
          /\ (req[h].pc = "SaveResult" /\ req'[h].err = "SaveResult") =>
                /\ req'[h].pc = "done"
                /\ req'[h].status = 500
                /\ UNCHANGED <<incidents, webhooks>>
          /\ (req[h].status = 500 /\ req'[h] # req[h]) =>
                /\ req'[h] = idleReq
                /\ UNCHANGED <<probes, check_results, incidents, webhooks>>]_vars

\* C20 happens: with an incident open, the append of an up result of its only probe
\* failed, the answer was 500 and the incident stayed open.
StorageErrorsSurfaceWitness ==
    \E h \in Handlers :
        LET c == req[h].result.check_id
        IN  /\ req[h].pc = "done"
            /\ req[h].status = 500
            /\ req[h].err = "SaveResult"
            /\ req[h].result.up
            /\ Reported(c) = {req[h].result.probe_id}
            /\ OpenIn(incidents, c) # {}

\* ------------------------------------------------------------------ probe liveness

\* The last_seen_at of probe p, NULL when it has no row.
LastSeen(p) ==
    IF Registered(p) THEN (CHOOSE r \in probes : r.probe_id = p).last_seen_at ELSE NULL

\* C21: once POST /api/results of a registered probe is answered 204, the probe's
\* last_seen_at is not older than the clock was when the result was appended.
AcceptedResultRefreshesLastSeen ==
    \A h \in Handlers :
        Answered(h)
            => LastSeen(req[h].result.probe_id) >= req[h].before.now

\* C22: every row of check_results names a probe that has a row in probes.
ResultsOnlyOfRegisteredProbes ==
    \A r \in check_results : Registered(r.probe_id)

\* Both probes have rows in check_results, and a heartbeat has stamped one of them
\* after it registered.
ResultsOnlyOfRegisteredProbesWitness ==
    /\ \A p \in RacingProbeIDs : \E r \in check_results : r.probe_id = p
    /\ \E p \in probes : p.last_seen_at > p.registered_at

\* ------------------------------------------------------------------ result queries

\* C23: RecentResultsPerProbe(c) holds one entry for each probe that has a row for
\* c and no other entry, and the entry of a probe is its row for c with the highest
\* id, whatever the timestamps and whatever the rows of other checks.
BallotIsNewestPerProbe ==
    qout.fn = "RecentResultsPerProbe" =>
        LET c == qout.check_id
            val == qout.val
        IN  /\ Len(val) = Cardinality(Reported(c))
            /\ \A p \in Reported(c) :
                    Cardinality({k \in DOMAIN val : val[k].probe_id = p}) = 1
            /\ \A k \in DOMAIN val :
                    /\ val[k].probe_id \in Reported(c)
                    /\ val[k].up = Newest(c, val[k].probe_id).up

\* The ballot of c1 was read from a log where a probe's newest row for c1 carries
\* an older timestamp and another verdict than its row before, and the probe's
\* newest row of all is for c2 with the opposite verdict.
BallotIsNewestPerProbeWitness ==
    /\ qout.fn = "RecentResultsPerProbe"
    /\ qout.check_id = "c1"
    /\ \E x, y, z \in check_results :
        /\ x.probe_id = y.probe_id /\ y.probe_id = z.probe_id
        /\ x.check_id = "c1" /\ y.check_id = "c1" /\ z.check_id = "c2"
        /\ x.id < y.id /\ y.id < z.id
        /\ x.timestamp > y.timestamp
        /\ x.up # y.up /\ z.up # y.up

\* The row of (c, p) that has exactly k newer rows of the pair.
NthNewest(c, p, k) ==
    LET rows == RowsOf(c, p)
    IN  CHOOSE r \in rows : Cardinality({q \in rows : q.id > r.id}) = k

\* C24: RecentResultsByProbe(c, p, n) returns min(n, k) entries, k the number of
\* rows of the pair, and entry i is the row of the pair with i - 1 newer rows.
HistoryIsNewestFirst ==
    qout.fn = "RecentResultsByProbe" =>
        LET c == qout.check_id
            p == qout.probe_id
            k == Cardinality(RowsOf(c, p))
            val == qout.val
        IN  /\ Len(val) = IF qout.n <= k THEN qout.n ELSE k
            /\ \A i \in DOMAIN val :
                    /\ val[i].probe_id = p
                    /\ val[i].up = NthNewest(c, p, i - 1).up

\* Two of three rows of a pair were asked for, the newest down and the oldest up.
HistoryIsNewestFirstWitness ==
    /\ qout.fn = "RecentResultsByProbe"
    /\ qout.n = 2
    /\ Cardinality(RowsOf(qout.check_id, qout.probe_id)) = 3
    /\ ~NthNewest(qout.check_id, qout.probe_id, 0).up
    /\ NthNewest(qout.check_id, qout.probe_id, 2).up
    /\ Len(qout.val) = 2

\* ------------------------------------------------------------------ seeding

\* C25: SeedChecks leaves every stored row as it is and adds rows only for ids that
\* were not stored, taken from its list; after a call that returned nil, seeding
\* the same list again leaves the table as it is.
SeedingIsIdempotentAndKeepsRows ==
    /\ [][/\ checks \subseteq checks'
          /\ \A c \in checks' \ checks :
                /\ \A r \in checks : r.id # c.id
                /\ \E k \in DOMAIN qin' : qin'[k] = c]_vars
    /\ []((qout.fn = "SeedChecks" /\ qout.val) => SeedChecks(checks, qin) = checks)

\* A list was seeded whose first check has a stored id and another definition than
\* the stored one, and whose second check was inserted.
SeedingIsIdempotentAndKeepsRowsWitness ==
    /\ qout.fn = "SeedChecks" /\ qout.val
    /\ Len(qin) = 2
    /\ qin[1] \notin checks
    /\ \E r \in checks : r.id = qin[1].id
    /\ qin[2] \in checks
    /\ qin[2].id # qin[1].id

\* ------------------------------------------------------------------ shared secret

\* C26: a request to a probe-facing route whose X-Wacht-Secret is not the configured
\* secret is answered 401 in the step that serves it, and the step changes no row of
\* probes, check_results or incidents, starts no handler and POSTs no webhook.
WrongSecretRejected ==
    [][(qout.fn # "" /\ qout.header # Secret /\ qout.val = 0)
          => /\ qout' = [qout EXCEPT !.val = 401]
             /\ UNCHANGED <<probes, check_results, incidents, webhooks, req, qin>>]_vars

\* A result of a registered probe that has results stored was refused with 401.
WrongSecretRejectedWitness ==
    /\ qout.fn = "results"
    /\ qout.header = "wrong"
    /\ qout.val = 401
    /\ Registered(qin[1].probe_id)
    /\ RowsOf(qin[1].check_id, qin[1].probe_id) # {}

\* ------------------------------------------------------------------ webhook failure

\* C27: an invocation whose webhook POST failed is answered 204 and the incident
\* it inserted stays open; and only an invocation that found no open incident of
\* the check when it appended its result reaches alert.Fire or POSTs a payload, so
\* no later invocation dispatches for an incident that is already open.
WebhookFailureNotUndoneNotRetried ==
    /\ [](\A h \in Handlers :
            (req[h].pc = "done" /\ req[h].err = "Fire") =>
                /\ req[h].status = 204
                /\ CreatedSince(h, req[h].result.check_id) # {}
                /\ CreatedSince(h, req[h].result.check_id)
                        \subseteq OpenIn(incidents, req[h].result.check_id))
    /\ [][\A h \in Handlers :
            (\/ req'[h].pc = "Fire" /\ req[h].pc # "Fire"
             \/ req[h].pc = "Fire" /\ webhooks' # webhooks)
                => OpenIn(req[h].before.incidents, req[h].result.check_id) = {}]_vars

\* The POST for the open incident failed without delivering anything, and a later
\* down result was answered 204 after OpenIncident found the incident open.
WebhookFailureNotUndoneNotRetriedWitness ==
    /\ webhooks = <<>>
    /\ OpenIn(incidents, "c1") # {}
    /\ \E h \in Handlers :
        /\ Answered(h)
        /\ ~req[h].result.up
        /\ req[h].count > 0
        /\ OpenIn(req[h].before.incidents, "c1") # {}

\* ------------------------------------------------------------------ clean outage

\* The down rows appended so far.
DownRows == {r \in check_results : ~r.up}

\* C28: with A up and B and C posting down twice each, one result at a time, there
\* is no incident and no payload before the fourth down result is handled; once
\* it is answered there is exactly one incident, open, and exactly one payload,
\* with probes_down = 2 and probes_total = 3.
CleanOutageOpensOnLastDown ==
    /\ Cardinality(DownRows) < 4 => incidents = {} /\ webhooks = <<>>
    /\ Cardinality(incidents) <= 1
    /\ Len(webhooks) <= 1
    /\ (Cardinality(DownRows) = 4 /\ req[1].pc \in {"done", "idle"}) =>
            /\ Cardinality(incidents) = 1
            /\ OpenIn(incidents, "c1") = incidents
            /\ Len(webhooks) = 1
            /\ webhooks[1].check_id = "c1"
            /\ webhooks[1].status = "down"
            /\ webhooks[1].probes_down = 2
            /\ webhooks[1].probes_total = 3

\* The fourth down result was answered and it was B's: C had posted down twice
\* before B's second post.
CleanOutageOpensOnLastDownWitness ==
    /\ Cardinality(DownRows) = 4
    /\ Answered(1)
    /\ req[1].result.probe_id = "B"
    /\ Len(webhooks) = 1

\* ------------------------------------------------------------------ wacht-probe

\* C29: the probe has handed no result to postResult and sent no heartbeat unless
\* register met a 204 and fetchChecks a 200 with a body that decodes; a probe
\* whose register or fetchChecks failed has sent neither, and never acts again.
ProbeStartupFailFast ==
    /\ []((agent.sent # {} \/ agent.beats > 0)
            => agent.register = "204" /\ agent.fetch = "200")
    /\ []((\/ agent.register \notin {"", "204"}
           \/ agent.fetch \notin {"", "200"})
            => /\ agent.pc = "fatal"
               /\ agent.sent = {} /\ agent.beats = 0
               /\ \A r \in check_results : r.probe_id # AgentID)
    /\ [][agent.pc = "fatal" => agent' = agent]_vars

\* The probe registered, the server has its row, and the probe ended at a check
\* list that did not decode.
ProbeStartupFailFastWitness ==
    /\ agent.pc = "fatal"
    /\ agent.register = "204"
    /\ agent.fetch = "undecodable"
    /\ Registered(AgentID)

DecisionsSerializedPerCheck ==
    Quiet =>
        \A c \in CheckIDs :
            /\ Cardinality(OpenIn(incidents, c)) <= 1
            /\ OpenIn(incidents, c) # {} => StrictMajorityDown(c)
            /\ firedSince[c] <= 1

\* ------------------------------------------------------------------ eviction

\* const defaultRetentionDays, in days; the clock of SpecEvict counts days.
defaultRetentionDays == 30

\* The retention_days the server is configured with: one day.
RetentionDays == {1}

\* probe_id values carried by results in SpecEvict.
EvictProbeIDs == {"A"}

\* Store.EvictOldResults(cutoff): DELETE FROM check_results WHERE timestamp < cutoff,
\* and the number of rows deleted.
EvictOldResults(rows, cutoff) ==
    LET old == {r \in rows : r.timestamp < cutoff}
    IN  [rows |-> rows \ old, n |-> Cardinality(old)]

\* The server once probe A has registered, the evictor running.
InitEvict ==
    /\ probes = RegisterProbe({}, "A", 0)
    /\ check_results = {}
    /\ incidents = {}
    /\ checks = {[id |-> "c1", target |-> "t1", webhook |-> "http://hook"]}
    /\ nextResultID = 1
    /\ nextIncidentID = 1
    /\ now = 0
    /\ req = [h \in Handlers |-> idleReq]
    /\ webhooks = <<>>
    /\ firedSince = [c \in CheckIDs |-> 0]
    /\ qin = <<>>
    /\ qout = [fn |-> "", cutoff |-> 0, val |-> 0]
    /\ limits = [rows |-> MaxEvict, time |-> MaxEvictTime]
    /\ calls = <<>>
    /\ agent = idleAgent

\* Faulty variant: the newest row of every (check_id, probe_id) pair is spared.
evictionLoopSparesNewest(retentionDays) ==
    /\ \E t \in TimeNow :
        LET days   == IF retentionDays <= 0 THEN defaultRetentionDays ELSE retentionDays
            cutoff == t - days
            newest == {r \in check_results :
                        \A q \in check_results :
                            q.check_id = r.check_id /\ q.probe_id = r.probe_id
                                => q.id <= r.id}
            evicted == EvictOldResults(check_results \ newest, cutoff)
        IN  /\ now' = t
            /\ check_results' = evicted.rows \cup newest
            /\ qout' = [fn |-> "EvictOldResults", cutoff |-> cutoff, val |-> evicted.n]
    /\ UNCHANGED <<probes, incidents, checks, nextResultID, nextIncidentID, req,
                   webhooks, firedSince, qin, limits, calls, agent>>

\* One turn of evictionLoop after its sleep: cutoff := time.Now().AddDate(0, 0,
\* -retentionDays); n, err := db.EvictOldResults(cutoff).
evictionLoop(retentionDays) ==
    /\ \E t \in TimeNow :
        LET days    == IF retentionDays <= 0 THEN defaultRetentionDays ELSE retentionDays
            cutoff  == t - days
            evicted == EvictOldResults(check_results, cutoff)
        IN  /\ now' = t
            /\ check_results' = evicted.rows
            /\ qout' = [fn |-> "EvictOldResults", cutoff |-> cutoff, val |-> evicted.n]
    /\ UNCHANGED <<probes, incidents, checks, nextResultID, nextIncidentID, req,
                   webhooks, firedSince, qin, limits, calls, agent>>

\* The results the probes of SpecEvict may post: the timestamp is the probe's
\* time.Now(), which the server's clock does not bound.
EvictResults ==
    [check_id : CheckIDs, probe_id : EvictProbeIDs, up : BOOLEAN,
     timestamp : 0..limits.time]

\* The server handling results one at a time while the evictor runs beside it.
NextEvict ==
    \/ \E r \in EvictResults : Quiet /\ hrIsProbeRegistered(1, r)
    \/ hrStep(1)
    \/ \E d \in RetentionDays : evictionLoop(d)

SpecEvict == InitEvict /\ [][NextEvict]_vars

\* A step that deletes rows of check_results: one turn of the evictor.
Evicts == check_results' # check_results /\ check_results' \subseteq check_results

\* ------------------------------------------------------------------ the empty ballot

\* C32: an invocation that read an empty ballot changes no incident row: it neither
\* inserts an incident nor resolves one.
EmptyBallotChangesNothing ==
    [][\A h \in Handlers :
        (req[h].pc # "idle" /\ req[h].pc # "SaveResult"
            /\ req[h].pc # "RecentResultsPerProbe" /\ req[h].recent = <<>>
            /\ req'[h] # req[h])
            => incidents' = incidents]_vars

\* ------------------------------------------------------------------ what eviction deletes

EvictionKeepsBallot ==
    [][Evicts =>
        \A c \in CheckIDs :
            (\E r \in check_results' : r.check_id = c)
                => RecentResultsPerProbe(check_results', c)
                        = RecentResultsPerProbe(check_results, c)]_vars

\* ------------------------------------------------------------------ the check loop

\* The type the probe fetched for check c, "" when its list has no such check.
FetchedType(c) ==
    IF \E k \in DOMAIN agent.checks : agent.checks[k].id = c
    THEN agent.checks[CHOOSE k \in DOMAIN agent.checks : agent.checks[k].id = c].type
    ELSE ""

\* C35: once the check loop runs it runs for ever; a POST that failed changes
\* neither the loop's position nor what it has produced, and the observation it
\* carried never reaches the server.
FailedPostDoesNotStopTheLoop ==
    /\ [][agent.pc = "loop" => agent'.pc = "loop"]_vars
    /\ [][agent'.dropped # agent.dropped =>
            /\ agent'.k = agent.k
            /\ agent'.sent = agent.sent
            /\ agent'.clock = agent.clock]_vars
    /\ [](\A r \in agent.dropped :
            /\ ~Accepted(r)
            /\ Cardinality({q \in agent.sent :
                    q.check_id = r.check_id /\ q.timestamp = r.timestamp}) = 1)

\* The POST for c1 failed, the result of c3 of the same round is stored, and the
\* next round has produced a result for c1.
FailedPostDoesNotStopTheLoopWitness ==
    /\ agent.pc = "loop"
    /\ \E r \in agent.dropped :
        /\ r.check_id = "c1"
        /\ \E row \in check_results :
            row.check_id = "c3" /\ row.timestamp = r.timestamp + 1
        /\ \E q \in agent.sent :
            q.check_id = "c1" /\ q.timestamp = r.timestamp + 2

InitResolved ==
    /\ probes = RegisterProbe({}, "A", 0)
    /\ check_results = {}
    /\ incidents = {}
    /\ checks = {[id |-> "c1", target |-> "t1", webhook |-> "http://hook"]}
    /\ nextResultID = 1
    /\ nextIncidentID = 1
    /\ now = 0
    /\ req = [h \in Handlers |-> idleReq]
    /\ webhooks = <<>>
    /\ firedSince = [c \in CheckIDs |-> 0]
    /\ qin = <<>>
    /\ qout = [fn |-> "", cutoff |-> 0, val |-> 0]
    /\ limits = [rows |-> MaxResolved, time |-> MaxResolvedTime]
    /\ calls = <<>>
    /\ agent = idleAgent

\* Results of probe A handled one at a time, incidents opened and resolved by
\* them, and the evictor.
NextResolved ==
    \/ \E r \in Results(EvictProbeIDs) : Quiet /\ hrIsProbeRegistered(1, r)
    \/ hrStep(1)
    \/ \E d \in RetentionDays : evictionLoop(d)

SpecResolved == InitResolved /\ [][NextResolved]_vars

\* C37: no step changes or deletes an incident row whose resolved_at is set.
ResolvedIncidentIsImmutable ==
    [][\A i \in incidents : i.resolved_at # NULL => i \in incidents']_vars

\* An incident was resolved; since then the evictor has deleted rows, a later
\* incident was opened, and a result was ingested that resolved the later one.
ResolvedIncidentIsImmutableWitness ==
    \E i, j \in incidents :
        /\ i.resolved_at # NULL /\ j.resolved_at # NULL
        /\ i.id < j.id
        /\ i.resolved_at < j.resolved_at
        /\ qout.fn = "EvictOldResults" /\ qout.val > 0
        /\ i.resolved_at <= qout.cutoff

\* ------------------------------------------------------------------ one transition per ingest

\* C38: when handleResult has answered for a result of check X, the incidents
\* table differs from what it was when the result was appended by at most one
\* transition of X: one row inserted for X, or X's open incident resolved, never
\* both; the rows of every other check_id are as they were.
IngestMakesOneTransitionOfItsCheck ==
    \A h \in Handlers :
        Answered(h) =>
            LET X       == req[h].result.check_id
                before  == req[h].before.incidents
                created == incidents \ before
                changed == before \ incidents
            IN  /\ \A i \in created \cup changed : i.check_id = X
                /\ \/ created = {} /\ changed = {}
                   \/ /\ changed = {}
                      /\ Cardinality(created) = 1
                      /\ \A i \in created : i.resolved_at = NULL
                   \/ /\ Cardinality(changed) = 1
                      /\ \A i \in changed :
                            /\ i.resolved_at = NULL
                            /\ created = {[i EXCEPT !.resolved_at = now]}

\* The ingest of a result for one check has opened its incident while another
\* check has an open incident, which is as it was.
IngestMakesOneTransitionOfItsCheckWitness ==
    \E h \in Handlers :
        /\ Answered(h)
        /\ incidents # req[h].before.incidents
        /\ \E i \in incidents :
            /\ i.check_id # req[h].result.check_id
            /\ i.resolved_at = NULL
            /\ i \in req[h].before.incidents
        /\ \E j \in incidents \ req[h].before.incidents :
            j.check_id = req[h].result.check_id /\ j.resolved_at = NULL

\* ------------------------------------------------------------------ status

\* check_id values of SpecStatus, and their order under ORDER BY cr.check_id.
StatusCheckIDs == {"c1", "c2"}
StatusCheckOrder == <<"c1", "c2">>

\* The results posted in SpecStatus: c1 is checked by three probes, c2 by one.
StatusResults ==
    [check_id : {"c1"}, probe_id : ProbeIDs, up : BOOLEAN, timestamp : {0}]
        \cup [check_id : {"c2"}, probe_id : {"A"}, up : BOOLEAN, timestamp : {0}]

\* The smallest of a non-empty set of times: MIN(started_at).
MinOf(T) == CHOOSE t \in T : \A u \in T : t <= u

\* Store.CheckStatuses: for every check_id with a row in check_results, the row
\* with MAX(id), LEFT JOINed with MIN(started_at) of the check's incidents WHERE
\* resolved_at IS NULL; IncidentSince is nil (NULL) when there is none.
CheckStatuses(results, incs) ==
    LET reported(c) == \E r \in results : r.check_id = c
        ids         == SelectSeq(StatusCheckOrder, reported)
        latest(c)   == CHOOSE r \in results :
                            /\ r.check_id = c
                            /\ \A q \in results : q.check_id = c => q.id <= r.id
        open(c)     == {i.started_at : i \in {j \in incs : j.check_id = c
                                                          /\ j.resolved_at = NULL}}
    IN  [k \in DOMAIN ids |->
            [check_id |-> ids[k], up |-> latest(ids[k]).up,
             incident_since |-> IF open(ids[k]) = {} THEN NULL ELSE MinOf(open(ids[k]))]]

\* The server once probes A, B and C have registered.
InitStatus ==
    /\ probes = RegisterProbe(RegisterProbe(RegisterProbe({}, "A", 0), "B", 0), "C", 0)
    /\ check_results = {}
    /\ incidents = {}
    /\ checks = {[id |-> "c1", target |-> "t1", webhook |-> "http://hook"],
                 [id |-> "c2", target |-> "t2", webhook |-> ""]}
    /\ nextResultID = 1
    /\ nextIncidentID = 1
    /\ now = 0
    /\ req = [h \in Handlers |-> idleReq]
    /\ webhooks = <<>>
    /\ firedSince = [c \in StatusCheckIDs |-> 0]
    /\ qin = <<>>
    /\ qout = [fn |-> "", val |-> <<>>]
    /\ limits = [rows |-> MaxStatus, time |-> 0]
    /\ calls = <<>>
    /\ agent = idleAgent

\* Faulty variant: the status is that of the latest result alone.
handleStatusLatestOnly ==
    /\ LET statuses == CheckStatuses(check_results, incidents)
       IN  qout' = [fn |-> "handleStatus",
                    val |-> [k \in DOMAIN statuses |->
                        [check_id |-> statuses[k].check_id,
                         status |-> IF ~statuses[k].up THEN "down" ELSE "up",
                         incident_since |-> statuses[k].incident_since]]]
    /\ UNCHANGED <<storeVars, now, req, webhooks, firedSince, qin, limits, calls, agent>>

\* GET /status, the checks of its response: "down" when the latest result is down
\* or IncidentSince is set; incident_since is left out (NULL) when it is nil.
handleStatus ==
    /\ LET statuses == CheckStatuses(check_results, incidents)
       IN  qout' = [fn |-> "handleStatus",
                    val |-> [k \in DOMAIN statuses |->
                        [check_id |-> statuses[k].check_id,
                         status |-> IF ~statuses[k].up \/ statuses[k].incident_since # NULL
                                    THEN "down" ELSE "up",
                         incident_since |-> statuses[k].incident_since]]]
    /\ UNCHANGED <<storeVars, now, req, webhooks, firedSince, qin, limits, calls, agent>>

\* Results handled one at a time; the status is read once, at any point.
NextStatus ==
    \/ \E r \in StatusResults : Quiet /\ hrIsProbeRegistered(1, r)
    \/ hrStep(1)
    \/ qout.fn = "" /\ handleStatus

SpecStatus == InitStatus /\ [][NextStatus]_vars

\* The result of check c that was appended last.
LastAppended(c) ==
    CHOOSE r \in RowsOfCheck(c) : \A q \in RowsOfCheck(c) : q.id <= r.id

\* C39: the status response lists exactly the checks that have a result; a check
\* is "down" iff its last appended result is down or it has an open incident, and
\* carries incident_since iff it has an open incident, so that a check with an
\* open incident is never "up".
StatusReadModelConsistent ==
    [][qout' # qout =>
        /\ {qout'.val[k].check_id : k \in DOMAIN qout'.val}
                = {r.check_id : r \in check_results}
        /\ \A k, m \in DOMAIN qout'.val :
                qout'.val[k].check_id = qout'.val[m].check_id => k = m
        /\ \A k \in DOMAIN qout'.val :
            LET s == qout'.val[k]
                c == s.check_id
            IN  /\ s.status \in {"up", "down"}
                /\ s.status = "down"
                        <=> (~LastAppended(c).up \/ OpenIn(incidents, c) # {})
                /\ s.incident_since # NULL <=> OpenIn(incidents, c) # {}
                /\ \A i \in OpenIn(incidents, c) : s.incident_since = i.started_at
                /\ OpenIn(incidents, c) # {} => s.status # "up"]_vars

\* The status was read while c1 had an open incident and its last result was up:
\* c1 is down with incident_since, c2 is up without.
StatusReadModelConsistentWitness ==
    /\ qout.fn = "handleStatus"
    /\ Len(qout.val) = 2
    /\ qout.val[1].status = "down" /\ qout.val[1].incident_since # NULL
    /\ qout.val[2].status = "up" /\ qout.val[2].incident_since = NULL
    /\ LastAppended("c1").up
    /\ OpenIn(incidents, "c1") # {}

\* ------------------------------------------------------------------ checks without a row

\* check_id c has a row in checks.
Known(c) == \E k \in checks : k.id = c

\* C40: a result of a registered probe for a check_id without a row in checks is
\* appended and decided by the same rule as any other (when handleResult answers,
\* the check has an open incident if its rows are conclusive and none if they are
\* not majority-down), and no payload is ever POSTed for such a check_id.
UnknownCheckIsIngestedWithoutWebhook ==
    /\ \A k \in DOMAIN webhooks : Known(webhooks[k].check_id)
    /\ \A h \in Handlers :
        (Answered(h) /\ ~Known(req[h].result.check_id)) =>
            LET X == req[h].result.check_id
            IN  /\ \E row \in check_results :
                    /\ row.check_id = X
                    /\ row.probe_id = req[h].result.probe_id
                    /\ row.up = req[h].result.up
                    /\ \A q \in check_results : q.id <= row.id
                /\ Conclusive(X) => Cardinality(OpenIn(incidents, X)) = 1
                /\ ~StrictMajorityDown(X) => OpenIn(incidents, X) = {}
                /\ Len(webhooks) = req[h].before.webhooks

\* c3 has no row in checks; an incident was opened for it and the result just
\* answered has resolved it, and nothing was POSTed.
UnknownCheckIsIngestedWithoutWebhookWitness ==
    \E h \in Handlers :
        /\ Answered(h)
        /\ req[h].result.check_id = "c3"
        /\ ~Known("c3")
        /\ \E i \in req[h].before.incidents : i.check_id = "c3" /\ i.resolved_at = NULL
        /\ \E i \in incidents : i.check_id = "c3" /\ i.resolved_at # NULL
        /\ webhooks = <<>>

====
